---- MODULE Spec2Model ----
(***************************************************************************)
(* Boot sequencer of fogbed_iota.network.IotaNetwork: topology building,   *)
(* start() (cleanup, genesis, config preparation, inject-and-boot, the     *)
(* three polling waits, client wiring), stop() and the signal handler,     *)
(* together with the node processes and the host work directory they act   *)
(* on.                                                                     *)
(***************************************************************************)
EXTENDS Integers, Sequences, FiniteSets, TLC

\* ------------------------------------------------------------------ bounds
\* Most nodes a caller adds to one network.
MaxNodes == 3
\* Longest time (seconds) one node.cmd() probe blocks before it returns.
MaxCmdDelay == 2
\* Most nodes whose pkill command raises during one stop().
MaxKillFailures == 1
\* Largest of the small port offsets IotaNodeConfig is built with.
MaxOffset == 20
\* Longest list of validators, and of fullnodes, validate_network_config is
\* called with.
MaxListLen == 2
\* Most lines of a validator template handed to _patch_validator_yaml.
MaxTemplateLines == 2

\* ------------------------------------------------------- program constants
\* _wait_node_process(node, timeout=30), polling every second.
NodeProcessTimeout == 30
NodeProcessInterval == 1
\* _wait_port_open(node, 9000, timeout=90), polling every 2 seconds.
PortOpenTimeout == 90
PortOpenInterval == 2
\* _wait_for_network_ready(timeout=90), polling every 3 seconds.
NetworkReadyTimeout == 90
NetworkReadyInterval == 3

\* IotaNode.__init__: p2p_port = 2001 + (port_offset * 10), rpc_port = 9000,
\* metrics_port = 9184.
NodeP2pBase == 2001
NodeP2pStep == 10
NodeRpcPort == 9000
NodeMetricsPort == 9184
\* validate_container_name: pattern ^[a-z0-9_-]{1,63}$
NameMaxLen == 63

\* IotaNodeConfig: BASE_P2P_PORT, BASE_RPC_PORT, BASE_METRICS_PORT, PORT_STEP.
BASE_P2P_PORT == 2001
BASE_RPC_PORT == 9000
BASE_METRICS_PORT == 9184
PORT_STEP == 10
\* validate_port: 1 <= port_num <= 65535
PortMin == 1
PortMax == 65535

NodeIds == 1..MaxNodes
\* Most nodes added when only the topology is built and nothing is started.
MaxTopoNodes == MaxNodes + 1

VARIABLES
    \* IotaNetwork fields
    nodes,              \* self.nodes: the roles, in insertion order
    client_container,   \* self.client_container is set
    auto_cleanup,       \* self.auto_cleanup
    cmd_delay_max,      \* longest time a node.cmd() probe takes in this run
    start_limit,        \* calls of start() the application makes at most
    node_limit,         \* nodes the application adds at most
    add_inputs,         \* names and addresses the application passes to add_*
    node_cfg,           \* per node of self.nodes: the IotaNode fields
    add_error,          \* what the last add_* call raised ("none": nothing)
    custom_config,      \* per node: the genesis.blob in its /custom_config
    metadata,           \* an IotaNodeMetadata object: its status and error
    meta_log,           \* the calls made on it: how many, and the last one
    peers,              \* two IotaNetwork objects on one host, and its WORK_DIR
    \* a call of one of the library's functions
    call_in,            \* the function called and its arguments
    call_out,           \* what the call returned or raised
    \* position of the single orchestration thread
    pc,                 \* the step of start() about to run, "idle" or "exited"
    bi,                 \* index into BootOrder of the node being booted
    sleeps,             \* the time.sleep calls of the _inject_and_boot under way
    elapsed,            \* seconds since the running wait computed its deadline
    starts,             \* calls of start() so far
    result,             \* how the last start() ended: "none", "ok", "failed"
    error,              \* the exception the last start() raised
    \* host and containers
    work_dir,           \* WORK_DIR on the host
    procs,              \* per node: iota-node processes alive in the container
    pid_alive,          \* per node: the process named by iota-node.pid is alive
    port_open,          \* per node: a listener is bound to the RPC port 9000
    client_rpc,         \* node whose address client.yaml names (0: no file)
    \* what the current start() has done and observed
    genesis_run,        \* outcome of this run's _generate_genesis
    compiled,           \* nodes whose config _prepare_configs wrote
    injected,           \* nodes whose config was copied into the container
    launched,           \* nodes whose iota-node was launched
    alive_seen,         \* nodes for which a poll ran while the process was alive
    wait_passed,        \* nodes whose _wait_node_process returned
    port_seen,          \* nodes for which a poll ran while the port listened
    port_passed,        \* nodes whose _wait_port_open returned
    ready,              \* how _wait_for_network_ready ended
    client_wired,       \* _configure_client wrote client.yaml in this run
    wait_log,           \* kind and duration of the last wait that ended
    \* what stop() did
    stop_log,           \* the last stop() since start(): what failed in it
    consec_stops        \* stop() calls in a row, nothing in between (capped)

objs == <<metadata, meta_log, peers>>
topo == <<nodes, client_container, auto_cleanup, cmd_delay_max, start_limit,
          node_limit, add_inputs, node_cfg, add_error, custom_config, objs,
          call_in, call_out>>
\* Seconds one node.cmd() probe may take before it returns.
CmdDelays == 0..cmd_delay_max
ctl  == <<pc, bi, sleeps, elapsed, starts, result, error>>
host == <<work_dir, procs, pid_alive, port_open, client_rpc>>
hist == <<genesis_run, compiled, injected, launched, alive_seen, wait_passed,
          port_seen, port_passed, ready, client_wired, wait_log>>
stopv == <<stop_log, consec_stops>>
vars == <<topo, ctl, host, hist, stopv>>

\* ------------------------------------------------------------ text helpers
\* Command output is text: a sequence of characters.
OK == <<"O", "K">>
NOK == <<"N", "O", "K">>
NoOutput == <<>>

\* Python's `needle in hay` on strings.
Contains(hay, needle) ==
    \E i \in 0..(Len(hay) - Len(needle)) :
        SubSeq(hay, i + 1, i + Len(needle)) = needle

\* sh -lc '<cond> && echo OK || echo NOK'
ShellOkNok(cond) == IF cond THEN OK ELSE NOK

\* What node.cmd() hands back for such a probe: the shell's answer, or nothing
\* when the container shell printed nothing.
ProbeOutputs(cond) == {ShellOkNok(cond), NoOutput}

\* `if "OK" in out` of _wait_node_process and _wait_port_open.
OutputSaysOk(out) == Contains(out, OK)

\* ---------------------------------------------------------------- topology
Indices == [i \in 1..Len(nodes) |-> i]
IsValidator(i) == nodes[i] = "validator"
IsFullnode(i) == nodes[i] = "fullnode"
ValidatorSeq == SelectSeq(Indices, IsValidator)
FullnodeSeq == SelectSeq(Indices, IsFullnode)
Validators == {i \in 1..Len(nodes) : IsValidator(i)}
Fullnodes == {i \in 1..Len(nodes) : IsFullnode(i)}

\* _inject_and_boot: every validator in insertion order, then every fullnode.
BootOrder == ValidatorSeq \o FullnodeSeq

\* next((n for n in self.nodes if n.role == "fullnode"), None); 0 is None.
FirstFullnode == IF FullnodeSeq = <<>> THEN 0 ELSE FullnodeSeq[1]

\* ---------------------------------------------------------------- work dir
\* blob_run names the genesis.blob in GENESIS_DIR and node_blob the one in
\* each node's directory under LIVE_DATA_DIR: 0 for no file, k >= 1 for the
\* blob the genesis tool wrote in the k-th start(), -1 for a blob an earlier
\* process left.
NoBlobs == [n \in NodeIds |-> 0]
NoWorkDir == [exists |-> FALSE, blob |-> FALSE, templates |-> 0,
              keystore |-> FALSE, prepared |-> {}, blob_run |-> 0,
              node_blob |-> NoBlobs]
\* A directory an earlier process left behind under the fixed path WORK_DIR.
StaleWorkDir == [exists |-> TRUE, blob |-> TRUE, templates |-> 1,
                 keystore |-> TRUE, prepared |-> {}, blob_run |-> -1,
                 node_blob |-> NoBlobs]
\* _cleanup: rmtree, then makedirs of GENESIS_DIR and LIVE_DATA_DIR.
FreshWorkDir == [exists |-> TRUE, blob |-> FALSE, templates |-> 0,
                 keystore |-> FALSE, prepared |-> {}, blob_run |-> 0,
                 node_blob |-> NoBlobs]

NoError == [stage |-> "none", node |-> 0, log_tail |-> FALSE]
NoRun == [done |-> FALSE, validators |-> 0, tool |-> "none", blob |-> FALSE]
NoWait == [kind |-> "none", ended |-> "none", on_time |-> TRUE]
NoStop == [at |-> "none", ran |-> FALSE, kill_raised |-> FALSE,
           survivors |-> {}, rm_failed |-> FALSE, raised |-> FALSE]

\* None, for an Optional[str] whose other values are texts.
NoneValue == "<None>"

\* IotaNodeMetadata.from_config(config): status "created", error None.
NewMetadata == [status |-> "created", error |-> NoneValue]

\* No call of set_status or is_ready yet.
NoMetaCalls ==
    [calls |-> 0, prev_status |-> "created", last_error |-> NoneValue,
     ready |-> "unasked"]

\* No library call.
\* Two IotaNetwork objects that were never started, and no WORK_DIR.  Of the
\* directory: who made it (_cleanup), whose genesis files and whose node
\* configurations it holds (0: nobody's).
NoPeerDir == [exists |-> FALSE, made_by |-> 0, genesis_by |-> 0,
              configs_by |-> 0]
NoPeers ==
    [work_dir |-> NoPeerDir,
     inst |-> [i \in 1..2 |-> [pc |-> "idle", auto_cleanup |-> FALSE,
                               uses |-> FALSE]]]

NoCall == [op |-> "none"]

Init ==
    /\ nodes = <<>>
    /\ client_container = FALSE
    /\ auto_cleanup \in BOOLEAN
    /\ cmd_delay_max = 0
    /\ start_limit = 1
    /\ node_limit = MaxNodes
    /\ add_inputs = "fresh"
    /\ node_cfg = <<>>
    /\ add_error = "none"
    /\ custom_config = NoBlobs
    /\ metadata = NewMetadata
    /\ meta_log = NoMetaCalls
    /\ peers = NoPeers
    /\ call_in = NoCall
    /\ call_out = NoCall
    /\ pc = "idle"
    /\ bi = 0
    /\ sleeps = <<>>
    /\ elapsed = 0
    /\ starts = 0
    /\ result = "none"
    /\ error = NoError
    /\ work_dir \in {NoWorkDir, StaleWorkDir}
    /\ procs = [n \in NodeIds |-> 0]
    /\ pid_alive = [n \in NodeIds |-> FALSE]
    /\ port_open = [n \in NodeIds |-> FALSE]
    /\ client_rpc = 0
    /\ genesis_run = NoRun
    /\ compiled = {}
    /\ injected = {}
    /\ launched = {}
    /\ alive_seen = {}
    /\ wait_passed = {}
    /\ port_seen = {}
    /\ port_passed = {}
    /\ ready = "none"
    /\ client_wired = FALSE
    /\ wait_log = NoWait
    /\ stop_log = NoStop
    /\ consec_stops = 0

\* An exception that start() would log and step over instead of letting out.
RaiseLogged(stage, n, tail) ==
    /\ pc' = "sc_env"
    /\ bi' = 0
    /\ sleeps' = <<>>
    /\ elapsed' = 0
    /\ result' = "failed"
    /\ error' = [stage |-> stage, node |-> n, log_tail |-> tail]
    /\ UNCHANGED starts

\* An exception leaves start(): nothing catches it there.
Raise(stage, n, tail) ==
    /\ pc' = "idle"
    /\ bi' = 0
    /\ sleeps' = <<>>
    /\ elapsed' = 0
    /\ result' = "failed"
    /\ error' = [stage |-> stage, node |-> n, log_tail |-> tail]
    /\ UNCHANGED starts

\* start() with the client wired before the readiness wait.
StartOrderClientFirst == <<"cleanup", "genesis", "prepare", "inject",
                           "configure_client", "ready_wait", "sc_env">>

\* The steps of start(), in the order it calls them; "inject" stands for
\* _inject_and_boot, whose loop also passes through "launch", "proc_wait" and
\* "port_wait".
StartOrder == <<"cleanup", "genesis", "prepare", "inject", "ready_wait",
                "configure_client", "sc_env">>

StepAfter(step) ==
    LET i == CHOOSE k \in 1..Len(StartOrder) : StartOrder[k] = step
    IN IF i < Len(StartOrder) THEN StartOrder[i + 1] ELSE "return"

\* start() moves on to its next step.
Goto(step) ==
    /\ pc' = step
    /\ UNCHANGED <<bi, sleeps, elapsed, starts, result, error>>

\* ------------------------------------------------------- node descriptors
\* The characters [a-z0-9_-] of validate_container_name's pattern.
NameChars ==
    {"a", "b", "c", "d", "e", "f", "g", "h", "i", "j", "k", "l", "m", "n",
     "o", "p", "q", "r", "s", "t", "u", "v", "w", "x", "y", "z",
     "0", "1", "2", "3", "4", "5", "6", "7", "8", "9", "_", "-"}

\* A name is a sequence of characters. re.match(r'^[a-z0-9_-]{1,63}$', name):
\* `$` matches at the end of the string and also just before a newline that
\* ends the string.
ValidateContainerName(name) ==
    LET body == IF Len(name) > 0 /\ name[Len(name)] = "\n"
                THEN SubSeq(name, 1, Len(name) - 1)
                ELSE name
    IN  /\ Len(body) >= 1
        /\ Len(body) <= NameMaxLen
        /\ \A i \in 1..Len(body) : body[i] \in NameChars

\* An address is the sequence of the numbers between its dots.
\* ipaddress.ip_address(ip) on a dotted address: four fields, each 0..255.
ValidateIp(ip) ==
    /\ Len(ip) = 4
    /\ \A i \in 1..Len(ip) : ip[i] \in 0..255

\* validate_node_config: the list of errors, in the order they are appended.
ValidateNodeConfigErrors(name, ip, role, port_offset) ==
    (IF ValidateContainerName(name) THEN <<>> ELSE <<"name">>)
    \o (IF ValidateIp(ip) THEN <<>> ELSE <<"ip">>)
    \o (IF role \in {"validator", "fullnode"} THEN <<>> ELSE <<"role">>)
    \o (IF port_offset >= 0 THEN <<>> ELSE <<"port_offset">>)

\* validate_node_config(...)[0]
ValidateNodeConfig(name, ip, role, port_offset) ==
    ValidateNodeConfigErrors(name, ip, role, port_offset) = <<>>

\* An IotaNode whose P2P port ignores the offset.
IotaNodeNoOffset(name, ip, role, port_offset) ==
    [name |-> name,
     ip_addr |-> ip,
     role |-> role,
     port_offset |-> port_offset,
     p2p_port |-> NodeP2pBase,
     rpc_port |-> NodeRpcPort,
     metrics_port |-> NodeMetricsPort]

\* The fields IotaNode.__init__ sets.
IotaNode(name, ip, role, port_offset) ==
    [name |-> name,
     ip_addr |-> ip,
     role |-> role,
     port_offset |-> port_offset,
     p2p_port |-> NodeP2pBase + (port_offset * NodeP2pStep),
     rpc_port |-> NodeRpcPort,
     metrics_port |-> NodeMetricsPort]

\* Names and addresses of an application that gives every node its own:
\* f"validator{i}" and f"10.0.0.{i}" in create_network.
DigitChar(i) == <<"0", "1", "2", "3", "4", "5", "6", "7", "8", "9">>[i + 1]
FreshName(i) == <<"n", DigitChar(i)>>
FreshIp(i) == <<10, 0, 0, i>>

\* A name one character longer than the pattern allows.
LongName == [i \in 1..(NameMaxLen + 1) |-> "a"]

\* Names and addresses an application may pass, good and bad.
NamePool ==
    {FreshName(1), FreshName(2), FreshName(1) \o <<"\n">>, <<"N", "1">>,
     LongName}
IpPool == {FreshIp(1), FreshIp(2), <<10, 0, 0, 256>>}

\* The (name, ip) arguments of the next add_* call.
AddInputs ==
    IF add_inputs = "fresh"
    THEN {[name |-> FreshName(Len(nodes) + 1), ip |-> FreshIp(Len(nodes) + 1)]}
    ELSE [name : NamePool, ip : IpPool]

\* ------------------------------------------------------- topology building
\* The application builds the topology before it calls start().
\* add_validator / add_gateway: IotaNode(name, ip, role,
\* port_offset=len(self.nodes)) raises ValueError when validate_node_config
\* rejects the arguments, before anything is appended.
AddNode(role, name, ip) ==
    /\ pc = "idle"
    /\ starts = 0
    /\ Len(nodes) < node_limit
    /\ IF ValidateNodeConfig(name, ip, role, Len(nodes))
       THEN /\ nodes' = Append(nodes, role)
            /\ node_cfg' = Append(node_cfg, IotaNode(name, ip, role, Len(nodes)))
            /\ add_error' = "none"
       ELSE /\ add_error' = "ValueError"
            /\ UNCHANGED <<nodes, node_cfg>>
    /\ consec_stops' = 0
    /\ UNCHANGED <<client_container, auto_cleanup, cmd_delay_max, start_limit,
                   node_limit, add_inputs, custom_config, objs, call_in,
                   call_out,
                   ctl, host, hist, stop_log>>

add_validator ==
    \E inp \in AddInputs : AddNode("validator", inp.name, inp.ip)

add_gateway ==
    \E inp \in AddInputs : AddNode("fullnode", inp.name, inp.ip)

set_client ==
    /\ pc = "idle"
    /\ starts = 0
    /\ ~client_container
    /\ client_container' = TRUE
    /\ consec_stops' = 0
    /\ UNCHANGED <<nodes, auto_cleanup, cmd_delay_max, start_limit,
                   node_limit, add_inputs, node_cfg, add_error,
                   custom_config, objs, call_in, call_out, ctl, host, hist,
                   stop_log>>

\* ------------------------------------------------------------------ start()
start ==
    /\ pc = "idle"
    /\ starts < start_limit
    /\ starts' = starts + 1
    /\ pc' = StartOrder[1]
    /\ bi' = 0
    /\ sleeps' = <<>>
    /\ elapsed' = 0
    /\ result' = "none"
    /\ error' = NoError
    /\ genesis_run' = NoRun
    /\ compiled' = {}
    /\ injected' = {}
    /\ launched' = {}
    /\ alive_seen' = {}
    /\ wait_passed' = {}
    /\ port_seen' = {}
    /\ port_passed' = {}
    /\ ready' = "none"
    /\ client_wired' = FALSE
    /\ wait_log' = NoWait
    /\ consec_stops' = 0
    /\ stop_log' = NoStop
    /\ UNCHANGED <<topo, host>>

\* _cleanup: shutil.rmtree(WORK_DIR) when it exists (uncaught when it fails),
\* then the two makedirs.
Cleanup ==
    /\ pc = "cleanup"
    /\ \/ /\ work_dir.exists
          /\ Raise("cleanup", 0, FALSE)
          /\ UNCHANGED work_dir
       \/ /\ work_dir' = FreshWorkDir
          /\ Goto(StepAfter("cleanup"))
    /\ UNCHANGED <<topo, procs, pid_alive, port_open, client_rpc, hist, stopv>>

\* What the genesis tool may leave in GENESIS_DIR for nv validators.
GenesisOutputs(nv) ==
    [blob : BOOLEAN, templates : {0, nv}, keystore : BOOLEAN]

\* The genesis directory after the tool ran with --force on top of `wd`.
AfterGenesisTool(wd, out) ==
    [wd EXCEPT !.blob = out.blob, !.templates = out.templates,
               !.keystore = out.keystore,
               !.blob_run = IF out.blob THEN starts ELSE 0]

\* _generate_genesis without its check that genesis.blob exists.
GenesisAcceptedUnchecked(tool, wd) == tool = "exit_zero"

\* _generate_genesis accepts the run: subprocess.run(check=True) returned and
\* genesis.blob exists.
GenesisAccepted(tool, wd) == tool = "exit_zero" /\ wd.blob

\* _generate_genesis
GenerateGenesis ==
    /\ pc = "genesis"
    /\ IF Validators = {}
       THEN /\ Raise("genesis", 0, FALSE)
            /\ genesis_run' = [done |-> TRUE, validators |-> 0,
                               tool |-> "not_run", blob |-> work_dir.blob]
            /\ UNCHANGED work_dir
       ELSE \E tool \in {"no_binary", "exit_nonzero", "exit_zero"},
               out \in GenesisOutputs(Cardinality(Validators)) :
              LET wd == IF tool = "no_binary" THEN work_dir
                        ELSE AfterGenesisTool(work_dir, out)
              IN /\ work_dir' = wd
                 /\ genesis_run' = [done |-> TRUE,
                                    validators |-> Cardinality(Validators),
                                    tool |-> tool, blob |-> wd.blob]
                 /\ IF GenesisAccepted(tool, wd)
                    THEN Goto(StepAfter("genesis"))
                    ELSE Raise("genesis", 0, FALSE)
    /\ UNCHANGED <<topo, procs, pid_alive, port_open, client_rpc, compiled,
                   injected, launched, alive_seen, wait_passed, port_seen,
                   port_passed, ready, client_wired, wait_log, stopv>>

\* The node directories _prepare_configs fills: every validator, and the
\* first fullnode only (gateway = fullnodes[0]).
PreparedNodes == Validators \cup (IF FirstFullnode = 0 THEN {} ELSE {FirstFullnode})

\* _prepare_configs without its shutil.copy of genesis.blob for the gateway.
BlobCopiesValidatorsOnly(wd, targets) ==
    [n \in NodeIds |-> IF n \in targets \cap Validators THEN wd.blob_run
                       ELSE wd.node_blob[n]]

\* shutil.copy(f"{GENESIS_DIR}/genesis.blob", f"{node_dir}/genesis.blob") for
\* every validator and for the gateway.
BlobCopies(wd, targets) ==
    [n \in NodeIds |-> IF n \in targets THEN wd.blob_run ELSE wd.node_blob[n]]

\* _prepare_configs
PrepareConfigs ==
    /\ pc = "prepare"
    /\ IF work_dir.templates = 0
       THEN /\ Raise("prepare", 0, FALSE)
            /\ UNCHANGED <<work_dir, compiled>>
       ELSE /\ work_dir' =
                   [work_dir EXCEPT
                       !.prepared = PreparedNodes,
                       !.node_blob = BlobCopies(work_dir, PreparedNodes)]
            /\ compiled' = PreparedNodes
            /\ pc' = StepAfter("prepare")
            /\ bi' = 1
            /\ sleeps' = <<>>
            /\ UNCHANGED <<elapsed, starts, result, error>>
    /\ UNCHANGED <<topo, procs, pid_alive, port_open, client_rpc, genesis_run,
                   injected, launched, alive_seen, wait_passed, port_seen,
                   port_passed, ready, client_wired, wait_log, stopv>>

\* ------------------------------------------------------- _inject_and_boot
CurrentNode == BootOrder[bi]

\* time.sleep(8) in the loop over the validators, and time.sleep(15) after it.
ValidatorGap == 8
StabilizeDelay == 15

\* A time.sleep call: its seconds and the node booted just before it.
Slept(secs, n) == [secs |-> secs, after |-> n]

\* `if i < len(validators) - 1` with the 8 s sleep after every validator.
InterValidatorDelayAlways(i, nv, n) == <<Slept(ValidatorGap, n)>>

\* The sleep of the loop's turn for validator number i (from 1) of nv.
InterValidatorDelay(i, nv, n) ==
    IF i < nv THEN <<Slept(ValidatorGap, n)>> ELSE <<>>

\* `if validators: time.sleep(15)`, reached when the loop over them is over.
StabilizationDelay(i, nv, n) ==
    IF i = nv /\ nv > 0 THEN <<Slept(StabilizeDelay, n)>> ELSE <<>>

\* The sleeps between the boot of BootOrder[i] and whatever comes next: the
\* validators are the first Len(ValidatorSeq) entries of BootOrder.
SleepsAfter(i) ==
    LET nv == Len(ValidatorSeq)
    IN IF i <= nv
       THEN InterValidatorDelay(i, nv, BootOrder[i])
                \o StabilizationDelay(i, nv, BootOrder[i])
       ELSE <<>>

\* The loop of _inject_and_boot moves to the next node (after the 8 s or 15 s
\* sleep that follows a validator), or ends and start() goes on.
NextNode ==
    /\ bi' = bi + 1
    /\ sleeps' = sleeps \o SleepsAfter(bi)
    /\ pc' = IF bi + 1 <= Len(BootOrder) THEN "inject" ELSE StepAfter("inject")
    /\ elapsed' = 0
    /\ UNCHANGED <<starts, result, error>>

\* _inject_and_start_node, first half: the config directory must exist, then
\* mkdir and docker cp into the container.
InjectNode ==
    /\ pc = "inject"
    /\ LET n == CurrentNode
       IN IF n \notin work_dir.prepared
          THEN /\ Raise("inject", n, FALSE)
               /\ UNCHANGED <<injected, custom_config>>
          ELSE \/ /\ Raise("inject", n, FALSE)
                  /\ UNCHANGED <<injected, custom_config>>
               \/ /\ injected' = injected \cup {n}
                  /\ custom_config' =
                         [custom_config EXCEPT ![n] = work_dir.node_blob[n]]
                  /\ Goto("launch")
    /\ UNCHANGED <<nodes, client_container, auto_cleanup, cmd_delay_max,
                   start_limit, node_limit, add_inputs, node_cfg, add_error,
                   objs, call_in, call_out, host, genesis_run, compiled,
                   launched, alive_seen, wait_passed, port_seen, port_passed,
                   ready, client_wired, wait_log, stopv>>

\* _inject_and_start_node, second half: node.cmd(node.get_config_command())
\* launches iota-node detached and writes its pid; the process may exit at once.
LaunchNode ==
    /\ pc = "launch"
    /\ LET n == CurrentNode
       IN \E stays \in BOOLEAN :
            /\ procs' = [procs EXCEPT ![n] = @ + (IF stays THEN 1 ELSE 0)]
            /\ pid_alive' = [pid_alive EXCEPT ![n] = stays]
            /\ launched' = launched \cup {n}
    /\ pc' = "proc_wait"
    /\ elapsed' = 0
    /\ UNCHANGED <<bi, sleeps, starts, result, error>>
    /\ UNCHANGED <<topo, work_dir, port_open, client_rpc, genesis_run, compiled,
                   injected, alive_seen, wait_passed, port_seen, port_passed,
                   ready, client_wired, wait_log, stopv>>

\* `while time.time() < deadline` with deadline = start + timeout.
BeforeDeadline(t, timeout) == t < timeout

\* A wait that ended `dur` seconds after it computed its deadline: on time when
\* that is no later than the timeout plus one poll interval.
WaitRecord(kind, dur, timeout, interval, ended) ==
    [kind |-> kind, ended |-> ended, on_time |-> dur <= timeout + interval]

\* _wait_node_process: one turn of the loop.
WaitNodeProcessPoll ==
    /\ pc = "proc_wait"
    /\ BeforeDeadline(elapsed, NodeProcessTimeout)
    /\ LET n == CurrentNode
       IN \E d \in CmdDelays, out \in ProbeOutputs(pid_alive[n]) :
            /\ alive_seen' = IF out = OK THEN alive_seen \cup {n} ELSE alive_seen
            /\ IF OutputSaysOk(out)
               THEN /\ wait_passed' = wait_passed \cup {n}
                    /\ wait_log' = WaitRecord("process", elapsed + d,
                                     NodeProcessTimeout, NodeProcessInterval,
                                     "returned")
                    /\ IF IsValidator(n)
                       THEN NextNode
                       ELSE \E d2 \in CmdDelays :
                              /\ pc' = "port_wait"
                              /\ elapsed' = d2
                              /\ UNCHANGED <<bi, sleeps, starts, result, error>>
               ELSE /\ elapsed' = elapsed + d + NodeProcessInterval
                    /\ UNCHANGED <<pc, bi, sleeps, starts, result, error, wait_passed,
                                   wait_log>>
    /\ UNCHANGED <<topo, host, genesis_run, compiled, injected, launched,
                   port_seen, port_passed, ready, client_wired, stopv>>

\* _wait_node_process: the deadline passed; tail the log and raise.
WaitNodeProcessTimeout ==
    /\ pc = "proc_wait"
    /\ ~BeforeDeadline(elapsed, NodeProcessTimeout)
    /\ \E d \in CmdDelays :
         wait_log' = WaitRecord("process", elapsed + d,
                       NodeProcessTimeout, NodeProcessInterval, "raised")
    /\ Raise("process_wait", CurrentNode, TRUE)
    /\ UNCHANGED <<topo, host, genesis_run, compiled, injected, launched,
                   alive_seen, wait_passed, port_seen, port_passed, ready,
                   client_wired, stopv>>

\* _wait_port_open: one turn of the loop.
WaitPortOpenPoll ==
    /\ pc = "port_wait"
    /\ BeforeDeadline(elapsed, PortOpenTimeout)
    /\ LET n == CurrentNode
       IN \E d \in CmdDelays, out \in ProbeOutputs(port_open[n]) :
            /\ port_seen' = IF out = OK THEN port_seen \cup {n} ELSE port_seen
            /\ IF OutputSaysOk(out)
               THEN /\ port_passed' = port_passed \cup {n}
                    /\ wait_log' = WaitRecord("port", elapsed + d,
                                     PortOpenTimeout, PortOpenInterval,
                                     "returned")
                    /\ NextNode
               ELSE /\ elapsed' = elapsed + d + PortOpenInterval
                    /\ UNCHANGED <<pc, bi, sleeps, starts, result, error, port_passed,
                                   wait_log>>
    /\ UNCHANGED <<topo, host, genesis_run, compiled, injected, launched,
                   alive_seen, wait_passed, ready, client_wired, stopv>>

\* _wait_port_open: the deadline passed; tail the log and raise.
WaitPortOpenTimeout ==
    /\ pc = "port_wait"
    /\ ~BeforeDeadline(elapsed, PortOpenTimeout)
    /\ \E d \in CmdDelays :
         wait_log' = WaitRecord("port", elapsed + d,
                       PortOpenTimeout, PortOpenInterval, "raised")
    /\ Raise("port_wait", CurrentNode, TRUE)
    /\ UNCHANGED <<topo, host, genesis_run, compiled, injected, launched,
                   alive_seen, wait_passed, port_seen, port_passed, ready,
                   client_wired, stopv>>

\* ------------------------------------------------ _wait_for_network_ready
\* What the curl probe of the gateway prints, by what the code looks at: the
\* text holds "FAIL", the lowered text holds "error", json.loads accepts it,
\* the parsed object has a "result" member.
CurlFailed   == [fail |-> TRUE,  err |-> FALSE, json |-> FALSE, result |-> FALSE]
RpcResult    == [fail |-> FALSE, err |-> FALSE, json |-> TRUE,  result |-> TRUE]
RpcError     == [fail |-> FALSE, err |-> TRUE,  json |-> TRUE,  result |-> FALSE]
NotJson      == [fail |-> FALSE, err |-> FALSE, json |-> FALSE, result |-> FALSE]
JsonNoResult == [fail |-> FALSE, err |-> FALSE, json |-> TRUE,  result |-> FALSE]

\* With no listener curl fails and the shell prints FAIL; with one, the node
\* answers as it pleases.
ProbeResponses(listening) ==
    IF listening THEN {RpcResult, RpcError, NotJson, JsonNoResult}
    ELSE {CurlFailed}

\* The nested ifs of the loop body.
ProbeAccepted(r) == ~r.fail /\ ~r.err /\ r.json /\ r.result

\* `if not gateway: return`
WaitForNetworkReadySkip ==
    /\ pc = "ready_wait"
    /\ FirstFullnode = 0
    /\ ready' = "skipped"
    /\ Goto(StepAfter("ready_wait"))
    /\ UNCHANGED <<topo, host, genesis_run, compiled, injected, launched,
                   alive_seen, wait_passed, port_seen, port_passed,
                   client_wired, wait_log, stopv>>

\* One turn of the loop: probe, return on an accepted answer, else sleep 3.
WaitForNetworkReadyPoll ==
    /\ pc = "ready_wait"
    /\ FirstFullnode # 0
    /\ BeforeDeadline(elapsed, NetworkReadyTimeout)
    /\ \E d \in CmdDelays, r \in ProbeResponses(port_open[FirstFullnode]) :
         IF ProbeAccepted(r)
         THEN /\ ready' = "answered"
              /\ wait_log' = WaitRecord("ready", elapsed + d,
                               NetworkReadyTimeout, NetworkReadyInterval,
                               "returned")
              /\ pc' = StepAfter("ready_wait")
              /\ elapsed' = 0
              /\ UNCHANGED <<bi, sleeps, starts, result, error>>
         ELSE /\ elapsed' = elapsed + d + NetworkReadyInterval
              /\ UNCHANGED <<pc, bi, sleeps, starts, result, error, ready, wait_log>>
    /\ UNCHANGED <<topo, host, genesis_run, compiled, injected, launched,
                   alive_seen, wait_passed, port_seen, port_passed,
                   client_wired, stopv>>

\* The deadline passed: a warning, "proceeding anyway", and a normal return.
WaitForNetworkReadyTimeout ==
    /\ pc = "ready_wait"
    /\ FirstFullnode # 0
    /\ ~BeforeDeadline(elapsed, NetworkReadyTimeout)
    /\ ready' = "timed_out"
    /\ wait_log' = WaitRecord("ready", elapsed, NetworkReadyTimeout,
                     NetworkReadyInterval, "returned")
    /\ pc' = StepAfter("ready_wait")
    /\ elapsed' = 0
    /\ UNCHANGED <<bi, sleeps, starts, result, error>>
    /\ UNCHANGED <<topo, host, genesis_run, compiled, injected, launched,
                   alive_seen, wait_passed, port_seen, port_passed,
                   client_wired, stopv>>

\* ------------------------------------------------------ _configure_client
\* next((n for n in self.nodes if n.role == "fullnode"),
\*      self.nodes[0] if self.nodes else None)
ClientRpcNode ==
    IF FirstFullnode # 0 THEN FirstFullnode
    ELSE IF Len(nodes) > 0 THEN 1 ELSE 0

ConfigureClient ==
    /\ pc = "configure_client"
    /\ IF ~client_container
       THEN /\ Goto(StepAfter("configure_client"))
            /\ UNCHANGED <<client_rpc, client_wired>>
       ELSE IF ClientRpcNode = 0
       THEN /\ Raise("client_config", 0, FALSE)
            /\ UNCHANGED <<client_rpc, client_wired>>
       ELSE \* the keystore copy fails (only when there is a keystore)
            \/ /\ work_dir.keystore
               /\ Raise("client_config", 0, FALSE)
               /\ UNCHANGED <<client_rpc, client_wired>>
            \* client.yaml is written, then found invalid
            \/ /\ client_rpc' = ClientRpcNode
               /\ client_wired' = TRUE
               /\ Raise("client_config", 0, FALSE)
            \* client.yaml is written and validated
            \/ /\ client_rpc' = ClientRpcNode
               /\ client_wired' = TRUE
               /\ Goto(StepAfter("configure_client"))
    /\ UNCHANGED <<topo, work_dir, procs, pid_alive, port_open, genesis_run,
                   compiled, injected, launched, alive_seen, wait_passed,
                   port_seen, port_passed, ready, wait_log, stopv>>

\* _setup_smart_contract_env, the summary, and start() returns.
SetupSmartContractEnv ==
    /\ pc = "sc_env"
    /\ pc' = "idle"
    /\ result' = "ok"
    /\ bi' = 0
    /\ sleeps' = <<>>
    /\ elapsed' = 0
    /\ UNCHANGED <<starts, error>>
    /\ UNCHANGED <<topo, host, hist, stopv>>

\* ------------------------------------------------------------------ stop()
\* stop() killing the validators only.
KillTargetsValidatorsOnly == Validators

\* `for node in self.nodes`: the nodes stop() sends pkill -9 iota-node to.
KillTargets == 1..Len(nodes)

\* The steps of stop() that sit inside try/except Exception.
StopGuards == {"kill", "rmtree"}

\* What stop() leaves of a per-node value when the kill of the nodes in
\* `failed` raised (and was caught) and the others ran.
AfterKill(f, failed, dead) ==
    [n \in NodeIds |->
        IF n \in KillTargets /\ n \notin failed THEN dead ELSE f[n]]

\* _cleanup_work_dir that leaves the directory in place.
AfterCleanupWorkDirKept(wd, rm_ok) == wd

\* _cleanup_work_dir on the work directory: rmtree when it exists; a failure
\* is logged.
AfterCleanupWorkDir(wd, rm_ok) ==
    IF wd.exists /\ rm_ok THEN NoWorkDir ELSE wd

\* if self.auto_cleanup: self._cleanup_work_dir()
AfterStopWorkDir(wd, rm_ok) ==
    IF auto_cleanup THEN AfterCleanupWorkDir(wd, rm_ok) ELSE wd

Min(a, b) == IF a < b THEN a ELSE b

\* The sets of nodes whose node.cmd("pkill ...") may raise in one stop().
KillFailures ==
    {S \in SUBSET KillTargets : Cardinality(S) <= MaxKillFailures}

\* The body of stop(). `at` is where the caller was: "idle" for a plain call,
\* the interrupted step of start() for the signal handler.
StopBody(at, failed, rm_ok) ==
    /\ procs' = AfterKill(procs, failed, 0)
    /\ pid_alive' = AfterKill(pid_alive, failed, FALSE)
    /\ port_open' = AfterKill(port_open, failed, FALSE)
    /\ stop_log' = [at |-> at,
                    ran |-> TRUE,
                    kill_raised |-> failed # {},
                    survivors |-> {n \in failed : procs[n] > 0},
                    rm_failed |-> auto_cleanup /\ work_dir.exists /\ ~rm_ok,
                    raised |-> \/ failed # {} /\ "kill" \notin StopGuards
                               \/ /\ auto_cleanup /\ work_dir.exists /\ ~rm_ok
                                  /\ "rmtree" \notin StopGuards]
    /\ consec_stops' = Min(consec_stops + 1, 2)

\* The outcomes of shutil.rmtree(WORK_DIR) when `attempted`: done or raised.
RmtreeOutcomes(attempted) == IF attempted THEN BOOLEAN ELSE {TRUE}

\* stop() called by the application (or by __exit__) between other calls.
stop ==
    /\ pc = "idle"
    /\ \E failed \in KillFailures,
          rm_ok \in RmtreeOutcomes(auto_cleanup /\ work_dir.exists) :
         /\ StopBody("idle", failed, rm_ok)
         /\ work_dir' = AfterStopWorkDir(work_dir, rm_ok)
    /\ UNCHANGED <<topo, ctl, client_rpc, hist>>

\* SIGINT or SIGTERM arrives (handlers are registered only with auto_cleanup):
\* whatever start() was doing is interrupted and _signal_handler is entered.
SignalDelivered ==
    /\ pc \notin {"handler", "exited"}
    /\ auto_cleanup
    /\ pc' = "handler"
    /\ bi' = 0
    /\ sleeps' = <<>>
    /\ elapsed' = 0
    /\ stop_log' = [NoStop EXCEPT !.at = pc]
    /\ UNCHANGED <<starts, result, error>>
    /\ UNCHANGED <<topo, host, hist, consec_stops>>

\* _signal_handler: stop(), sys.exit(0), and at exit _cleanup_on_exit tries
\* the work directory once more.
SignalHandler ==
    /\ pc = "handler"
    /\ \E failed \in KillFailures,
          rm_ok \in RmtreeOutcomes(work_dir.exists) :
       \E rm_ok2 \in RmtreeOutcomes(work_dir.exists /\ ~rm_ok) :
         /\ StopBody(stop_log.at, failed, rm_ok)
         /\ work_dir' = AfterCleanupWorkDir(AfterStopWorkDir(work_dir, rm_ok),
                                            rm_ok2)
    /\ pc' = "exited"
    /\ UNCHANGED <<bi, sleeps, elapsed, starts, result, error>>
    /\ UNCHANGED <<topo, client_rpc, hist>>

\* ------------------------------------------------------------ environment
\* The iota-node process just launched exits while start() still waits on
\* it; its listener goes away.
ProcessExits(n) ==
    /\ pc \in {"proc_wait", "port_wait"}
    /\ n = CurrentNode
    /\ pid_alive[n]
    /\ pid_alive' = [pid_alive EXCEPT ![n] = FALSE]
    /\ procs' = [procs EXCEPT ![n] = @ - 1]
    /\ port_open' = [port_open EXCEPT ![n] = FALSE]
    /\ UNCHANGED <<topo, ctl, work_dir, client_rpc, hist, stopv>>

\* A live fullnode binds its JSON-RPC listener.
PortBinds(n) ==
    /\ n \in 1..Len(nodes)
    /\ IsFullnode(n)
    /\ pid_alive[n]
    /\ ~port_open[n]
    /\ port_open' = [port_open EXCEPT ![n] = TRUE]
    /\ UNCHANGED <<topo, ctl, work_dir, procs, pid_alive, client_rpc, hist, stopv>>

Next ==
    \/ add_validator
    \/ add_gateway
    \/ set_client
    \/ start
    \/ Cleanup
    \/ GenerateGenesis
    \/ PrepareConfigs
    \/ InjectNode
    \/ LaunchNode
    \/ WaitNodeProcessPoll
    \/ WaitNodeProcessTimeout
    \/ WaitPortOpenPoll
    \/ WaitPortOpenTimeout
    \/ WaitForNetworkReadySkip
    \/ WaitForNetworkReadyPoll
    \/ WaitForNetworkReadyTimeout
    \/ ConfigureClient
    \/ SetupSmartContractEnv
    \/ stop
    \/ SignalDelivered
    \/ SignalHandler
    \/ \E n \in NodeIds : ProcessExits(n)
    \/ \E n \in NodeIds : PortBinds(n)

Spec == Init /\ [][Next]_vars

\* ---------------------------------------------------------------- SpecTimed
\* One start() of a network of one validator and one gateway with a client,
\* in an environment whose node.cmd() probes take up to MaxCmdDelay seconds.
InitTimed ==
    /\ nodes = <<"validator", "fullnode">>
    /\ client_container = TRUE
    /\ auto_cleanup = FALSE
    /\ cmd_delay_max = MaxCmdDelay
    /\ start_limit = 1
    /\ node_limit = 2
    /\ add_inputs = "fresh"
    /\ node_cfg = <<IotaNode(FreshName(1), FreshIp(1), "validator", 0),
                    IotaNode(FreshName(2), FreshIp(2), "fullnode", 1)>>
    /\ add_error = "none"
    /\ custom_config = NoBlobs
    /\ metadata = NewMetadata
    /\ meta_log = NoMetaCalls
    /\ peers = NoPeers
    /\ call_in = NoCall
    /\ call_out = NoCall
    /\ pc = "idle"
    /\ bi = 0
    /\ sleeps = <<>>
    /\ elapsed = 0
    /\ starts = 0
    /\ result = "none"
    /\ error = NoError
    /\ work_dir = NoWorkDir
    /\ procs = [n \in NodeIds |-> 0]
    /\ pid_alive = [n \in NodeIds |-> FALSE]
    /\ port_open = [n \in NodeIds |-> FALSE]
    /\ client_rpc = 0
    /\ genesis_run = NoRun
    /\ compiled = {}
    /\ injected = {}
    /\ launched = {}
    /\ alive_seen = {}
    /\ wait_passed = {}
    /\ port_seen = {}
    /\ port_passed = {}
    /\ ready = "none"
    /\ client_wired = FALSE
    /\ wait_log = NoWait
    /\ stop_log = NoStop
    /\ consec_stops = 0

NextTimed ==
    \/ start
    \/ Cleanup
    \/ GenerateGenesis
    \/ PrepareConfigs
    \/ InjectNode
    \/ LaunchNode
    \/ WaitNodeProcessPoll
    \/ WaitNodeProcessTimeout
    \/ WaitPortOpenPoll
    \/ WaitPortOpenTimeout
    \/ WaitForNetworkReadyPoll
    \/ WaitForNetworkReadyTimeout
    \/ ConfigureClient
    \/ SetupSmartContractEnv
    \/ \E n \in NodeIds : ProcessExits(n)
    \/ \E n \in NodeIds : PortBinds(n)

SpecTimed == InitTimed /\ [][NextTimed]_vars

\* ------------------------------------------------------------ SpecRestart
\* An application that calls start() more than once on one IotaNetwork, with
\* or without stop() in between: one validator and one gateway, probes that
\* answer at once.
MaxStarts == 2

InitRestart ==
    /\ nodes = <<"validator", "fullnode">>
    /\ client_container = TRUE
    /\ auto_cleanup \in BOOLEAN
    /\ cmd_delay_max = 0
    /\ start_limit = MaxStarts
    /\ node_limit = 2
    /\ add_inputs = "fresh"
    /\ node_cfg = <<IotaNode(FreshName(1), FreshIp(1), "validator", 0),
                    IotaNode(FreshName(2), FreshIp(2), "fullnode", 1)>>
    /\ add_error = "none"
    /\ custom_config = NoBlobs
    /\ metadata = NewMetadata
    /\ meta_log = NoMetaCalls
    /\ peers = NoPeers
    /\ call_in = NoCall
    /\ call_out = NoCall
    /\ pc = "idle"
    /\ bi = 0
    /\ sleeps = <<>>
    /\ elapsed = 0
    /\ starts = 0
    /\ result = "none"
    /\ error = NoError
    /\ work_dir = NoWorkDir
    /\ procs = [n \in NodeIds |-> 0]
    /\ pid_alive = [n \in NodeIds |-> FALSE]
    /\ port_open = [n \in NodeIds |-> FALSE]
    /\ client_rpc = 0
    /\ genesis_run = NoRun
    /\ compiled = {}
    /\ injected = {}
    /\ launched = {}
    /\ alive_seen = {}
    /\ wait_passed = {}
    /\ port_seen = {}
    /\ port_passed = {}
    /\ ready = "none"
    /\ client_wired = FALSE
    /\ wait_log = NoWait
    /\ stop_log = NoStop
    /\ consec_stops = 0

NextRestart ==
    \/ NextTimed
    \/ stop

SpecRestart == InitRestart /\ [][NextRestart]_vars

\* ----------------------------------------------------------------- SpecTopo
\* An application that only builds topologies, with any of the names and
\* addresses of NamePool and IpPool, and starts nothing.
InitTopo ==
    /\ nodes = <<>>
    /\ client_container = FALSE
    /\ auto_cleanup = FALSE
    /\ cmd_delay_max = 0
    /\ start_limit = 0
    /\ node_limit = MaxTopoNodes
    /\ add_inputs = "any"
    /\ node_cfg = <<>>
    /\ add_error = "none"
    /\ custom_config = NoBlobs
    /\ metadata = NewMetadata
    /\ meta_log = NoMetaCalls
    /\ peers = NoPeers
    /\ call_in = NoCall
    /\ call_out = NoCall
    /\ pc = "idle"
    /\ bi = 0
    /\ sleeps = <<>>
    /\ elapsed = 0
    /\ starts = 0
    /\ result = "none"
    /\ error = NoError
    /\ work_dir = NoWorkDir
    /\ procs = [n \in NodeIds |-> 0]
    /\ pid_alive = [n \in NodeIds |-> FALSE]
    /\ port_open = [n \in NodeIds |-> FALSE]
    /\ client_rpc = 0
    /\ genesis_run = NoRun
    /\ compiled = {}
    /\ injected = {}
    /\ launched = {}
    /\ alive_seen = {}
    /\ wait_passed = {}
    /\ port_seen = {}
    /\ port_passed = {}
    /\ ready = "none"
    /\ client_wired = FALSE
    /\ wait_log = NoWait
    /\ stop_log = NoStop
    /\ consec_stops = 0

NextTopo ==
    \/ add_validator
    \/ add_gateway

SpecTopo == InitTopo /\ [][NextTopo]_vars

\* ----------------------------------------------------------- config text
\* A line of a YAML file is a sequence of tokens: a piece of text, or a
\* number written in decimal.
Tok(s) == [s |-> s, n |-> 0]
Num(n) == [s |-> "<number>", n |-> n]
Sp == Tok(" ")
Tab == Tok("\t")
Nl == Tok("\n")
Quote == Tok("\"")

\* `word in line`
Has(line, word) == \E i \in 1..Len(line) : line[i] = Tok(word)

\* str.lower() of a token's text, on the texts the templates contain.
Lower(text) == IF text = "P2P" THEN "p2p" ELSE text

\* `word in line.lower()`
HasLower(line, word) == \E i \in 1..Len(line) : Lower(line[i].s) = word

\* line.lstrip(): the line without its leading whitespace.
RECURSIVE LStrip(_)
LStrip(line) ==
    IF line # <<>> /\ Head(line) \in {Sp, Tab, Nl}
    THEN LStrip(Tail(line))
    ELSE line

\* An indent that forgets the depth of the line it replaces.
IndentNone(line) == <<>>

\* indent = " " * (len(line) - len(line.lstrip()))
Indent(line) == [i \in 1..(Len(line) - Len(LStrip(line))) |-> Sp]

\* f"{ip_addr}" of a dotted address.
IpToks(ip) ==
    <<Num(ip[1]), Tok("."), Num(ip[2]), Tok("."), Num(ip[3]), Tok("."),
      Num(ip[4])>>

\* /ip4/{ip_addr}/tcp/{p2p_port}
P2pAddress(node) ==
    <<Tok("/ip4/")>> \o IpToks(node.ip_addr)
        \o <<Tok("/tcp/"), Num(node.p2p_port)>>

\* The pruning/retention list that names one key only.
ExclusionListShort == {"pruning-period"}

\* any(k in line for k in ["pruning-period", "num-epochs-to-retain"])
ExclusionList == {"pruning-period", "num-epochs-to-retain"}
Excluded(line) == \E k \in ExclusionList : Has(line, k)

\* The branch of _patch_validator_yaml's if/elif chain a line takes: the
\* directive it is recognised as, or "none".
DirectiveOf(line) ==
    IF Has(line, "db-path:") THEN "db-path:"
    ELSE IF Has(line, "genesis-file-location:") THEN "genesis-file-location:"
    ELSE IF Has(line, "network-address:") THEN "network-address:"
    ELSE IF Has(line, "metrics-address:") THEN "metrics-address:"
    ELSE IF Has(line, "listen-address:") /\ ~HasLower(line, "p2p")
         THEN "listen-address:"
    ELSE IF Has(line, "external-address:") THEN "external-address:"
    ELSE "none"

\* The text _patch_validator_yaml writes after the indent for a directive.
DirectiveText(key, node) ==
    IF key = "db-path:"
    THEN <<Tok(key), Sp, Quote, Tok("/app/db"), Quote, Nl>>
    ELSE IF key = "genesis-file-location:"
    THEN <<Tok(key), Sp, Quote, Tok("/custom_config/genesis.blob"), Quote, Nl>>
    ELSE IF key = "network-address:"
    THEN <<Tok(key), Sp, Tok("/ip4/0.0.0.0/tcp/8080/http"), Nl>>
    ELSE IF key = "metrics-address:"
    THEN <<Tok(key), Sp, Quote, Tok("0.0.0.0:9184"), Quote, Nl>>
    ELSE IF key = "listen-address:"
    THEN <<Tok(key), Sp, Quote, Tok("0.0.0.0:"), Num(node.p2p_port), Quote, Nl>>
    ELSE <<Tok(key), Sp>> \o P2pAddress(node) \o <<Nl>>

\* One turn of the loop of _patch_validator_yaml: the lines it appends to
\* new_lines for one template line.
PatchLine(line, node) ==
    IF DirectiveOf(line) # "none"
    THEN <<Indent(line) \o DirectiveText(DirectiveOf(line), node)>>
    ELSE IF Excluded(line) THEN <<>>
    ELSE <<line>>

\* _patch_validator_yaml: new_lines for the lines of the template.
RECURSIVE PatchValidatorYaml(_, _)
PatchValidatorYaml(lines, node) ==
    IF lines = <<>> THEN <<>>
    ELSE PatchLine(Head(lines), node) \o PatchValidatorYaml(Tail(lines), node)

\* A seed-peer list that names the first validator only.
SeedPeerLinesFirstOnly(validators) ==
    IF validators = <<>> THEN <<>>
    ELSE <<(<<Sp, Sp, Sp, Sp, Tok("-"), Sp, Tok("address:"), Sp>>
                \o P2pAddress(validators[1]))>>

\* for v in validators: lines.append(f"    - address: /ip4/.../tcp/...")
SeedPeerLines(validators) ==
    [k \in 1..Len(validators) |->
        <<Sp, Sp, Sp, Sp, Tok("-"), Sp, Tok("address:"), Sp>>
            \o P2pAddress(validators[k])]

\* _create_gateway_config: the lines of the gateway's validator.yaml.
CreateGatewayConfig(gateway, validators) ==
    <<  <<Tok("---")>>,
        <<Tok("db-path:"), Sp, Quote, Tok("/app/db"), Quote>>,
        <<Tok("network-address:"), Sp, Tok("/ip4/0.0.0.0/tcp/8080/http")>>,
        <<Tok("metrics-address:"), Sp, Quote, Tok("0.0.0.0:9184"), Quote>>,
        <<>>,
        <<Tok("json-rpc-address:"), Sp, Quote, Tok("0.0.0.0:9000"), Quote>>,
        <<>>,
        <<Tok("genesis:")>>,
        <<Sp, Sp, Tok("genesis-file-location:"), Sp, Quote,
          Tok("/custom_config/genesis.blob"), Quote>>,
        <<>>,
        <<Tok("p2p-config:")>>,
        <<Sp, Sp, Tok("listen-address:"), Sp, Quote, Tok("0.0.0.0:"),
          Num(gateway.p2p_port), Quote>>,
        (<<Sp, Sp, Tok("external-address:"), Sp>> \o P2pAddress(gateway)),
        <<Sp, Sp, Tok("seed-peers:")>>  >>
    \o SeedPeerLines(validators)

\* validators = [n for n in self.nodes if n.role == "validator"] and
\* fullnodes likewise, on a list of IotaNode objects.
ValidatorsOf(cfg) == SelectSeq(cfg, LAMBDA n : n.role = "validator")
FullnodesOf(cfg) == SelectSeq(cfg, LAMBDA n : n.role = "fullnode")

\* ------------------------------------------------------------------ library
\* validate_port that accepts every number.
ValidatePortAny(port) == TRUE

\* validate_port(port)

ValidatePort(port) == PortMin <= port /\ port <= PortMax

\* IotaNodeConfig._compute_ports with every port at its base.
ComputePortsNoOffset(port_offset) ==
    [op |-> "compute_ports", raised |-> "none",
     p2p_port |-> BASE_P2P_PORT, rpc_port |-> BASE_RPC_PORT,
     metrics_port |-> BASE_METRICS_PORT]

\* IotaNodeConfig._compute_ports: the three ports, then the first of them
\* that validate_port rejects raises ValueError.
ComputePorts(port_offset) ==
    LET p2p == BASE_P2P_PORT + (port_offset * PORT_STEP)
        rpc == BASE_RPC_PORT + (port_offset * PORT_STEP)
        metrics == BASE_METRICS_PORT + (port_offset * PORT_STEP)
    IN  [op |-> "compute_ports",
         raised |-> IF ~ValidatePort(p2p) THEN "Invalid P2P port"
                    ELSE IF ~ValidatePort(rpc) THEN "Invalid RPC port"
                    ELSE IF ~ValidatePort(metrics) THEN "Invalid Metrics port"
                    ELSE "none",
         p2p_port |-> p2p, rpc_port |-> rpc, metrics_port |-> metrics]

\* The loops of validate_network_config over one list: the errors appended
\* and the names and addresses seen, starting from `acc`.
RECURSIVE ScanNodes(_, _)
ScanNodes(list, acc) ==
    IF list = <<>> THEN acc
    ELSE LET node == Head(list)
             e1 == IF node.ip \in acc.all_ips
                   THEN Append(acc.errors, "Duplicate IP") ELSE acc.errors
             e2 == IF node.name \in acc.all_names
                   THEN Append(e1, "Duplicate name") ELSE e1
         IN  ScanNodes(Tail(list),
                       [errors |-> e2,
                        all_ips |-> acc.all_ips \cup {node.ip},
                        all_names |-> acc.all_names \cup {node.name}])

\* validate_network_config that looks at the validators only.
NetworkConfigErrorsValidatorsOnly(validators, fullnodes) ==
    ScanNodes(validators,
              [errors |-> IF Len(validators) = 0
                          THEN <<"At least one validator is required">>
                          ELSE <<>>,
               all_ips |-> {}, all_names |-> {}]).errors

\* validate_network_config: the errors list.
NetworkConfigErrors(validators, fullnodes) ==
    LET start0 == [errors |-> IF Len(validators) = 0
                             THEN <<"At least one validator is required">>
                             ELSE <<>>,
                   all_ips |-> {}, all_names |-> {}]
    IN  ScanNodes(fullnodes, ScanNodes(validators, start0)).errors

\* validate_network_config(validators, fullnodes): (bool, list of errors)
ValidateNetworkConfig(validators, fullnodes) ==
    LET errors == NetworkConfigErrors(validators, fullnodes)
    IN  [op |-> "validate_network_config",
         ok |-> errors = <<>>,
         errors |-> errors]

\* The offsets IotaNodeConfig is built with: the small ones, and those around
\* the last one whose ports fit below 65536.
OffsetSamples == (0..MaxOffset) \cup (5630..5640)

\* The node dicts validate_network_config is called with, and the lists of
\* them.
NodeDicts == [name : {FreshName(1), FreshName(2)}, ip : {FreshIp(1), FreshIp(2)}]
NodeDictLists == UNION {[1..k -> NodeDicts] : k \in 0..MaxListLen}

ComputePortsCalls == [op : {"compute_ports"}, port_offset : OffsetSamples]
ValidateNetworkCalls ==
    [op : {"validate_network_config"},
     validators : NodeDictLists, fullnodes : NodeDictLists]

\* IotaNodeConfig(..., port_offset=o): _compute_ports runs on the new object.
compute_ports ==
    /\ call_in.op = "compute_ports"
    /\ call_out.op = "none"
    /\ call_out' = ComputePorts(call_in.port_offset)
    /\ UNCHANGED <<nodes, client_container, auto_cleanup, cmd_delay_max,
                   start_limit, node_limit, add_inputs, node_cfg, add_error,
                   custom_config, objs, call_in, ctl, host, hist, stopv>>

validate_network_config ==
    /\ call_in.op = "validate_network_config"
    /\ call_out.op = "none"
    /\ call_out' = ValidateNetworkConfig(call_in.validators, call_in.fullnodes)
    /\ UNCHANGED <<nodes, client_container, auto_cleanup, cmd_delay_max,
                   start_limit, node_limit, add_inputs, node_cfg, add_error,
                   custom_config, objs, call_in, ctl, host, hist, stopv>>

\* The template lines _patch_validator_yaml is called with: each directive,
\* a listen-address line that mentions P2P, the two excluded keys, a db-path
\* whose value holds an excluded key, and a line of no interest; each at
\* three depths of leading whitespace.  The validator templates the genesis
\* tool writes also carry a json-rpc-address line.
TemplateTexts ==
    { <<Tok("db-path:"), Sp, Tok("/old/db")>>,
      <<Tok("json-rpc-address:"), Sp, Quote, Tok("0.0.0.0:9000"), Quote>>,
      <<Tok("db-path:"), Sp, Tok("/old/"), Tok("pruning-period")>>,
      <<Tok("genesis-file-location:"), Sp, Tok("genesis.blob")>>,
      <<Tok("network-address:"), Sp, Tok("/ip4/127.0.0.1/tcp/1/http")>>,
      <<Tok("metrics-address:"), Sp, Quote, Tok("127.0.0.1:1"), Quote>>,
      <<Tok("listen-address:"), Sp, Quote, Tok("127.0.0.1:1"), Quote>>,
      <<Tok("listen-address:"), Sp, Tok("x"), Sp, Tok("#"), Sp, Tok("P2P")>>,
      <<Tok("external-address:"), Sp, Tok("/ip4/127.0.0.1/udp/1")>>,
      <<Tok("epoch-db-"), Tok("pruning-period"), Tok("-secs:"), Sp, Num(3600)>>,
      <<Tok("num-epochs-to-retain"), Tok(":"), Sp, Num(0)>>,
      <<Tok("protocol-key-pair:")>> }
TemplateIndents == {<<>>, <<Sp, Sp>>, <<Tab>>}
TemplateLines ==
    {ws \o text \o <<Nl>> : ws \in TemplateIndents, text \in TemplateTexts}
Templates == UNION {[1..k -> TemplateLines] : k \in 0..MaxTemplateLines}

\* The validators a template is patched for.
PatchNodes ==
    {IotaNode(FreshName(1), FreshIp(1), "validator", 0),
     IotaNode(FreshName(2), FreshIp(2), "validator", 1)}
PatchCalls ==
    [op : {"patch_validator_yaml"}, lines : Templates, node : PatchNodes]

\* self.nodes as the adds of an application with fresh names leave it, for
\* every order of roles with a gateway in it.
RoleLists ==
    {r \in UNION {[1..k -> {"validator", "fullnode"}] : k \in 1..MaxNodes} :
        \E i \in 1..Len(r) : r[i] = "fullnode"}
NodeListOf(r) ==
    [i \in 1..Len(r) |-> IotaNode(FreshName(i), FreshIp(i), r[i], i - 1)]
\* The fullnode.yaml template _prepare_configs hands over as `source`: the
\* key pairs it holds, each as a `<name>:` line followed by a `value:` line.
KeyPairNames ==
    {"authority-key-pair", "protocol-key-pair", "account-key-pair",
     "network-key-pair"}
KeyPairValue(k) == <<Sp, Sp, Tok("value:"), Sp, Tok("secret-of-"), Tok(k)>>
SourceTemplate(keys) == [k \in keys |-> KeyPairValue(k)]
GatewayCalls ==
    [op : {"create_gateway_config"}, cfg : {NodeListOf(r) : r \in RoleLists},
     source : {SourceTemplate(keys) : keys \in SUBSET KeyPairNames}]

patch_validator_yaml ==
    /\ call_in.op = "patch_validator_yaml"
    /\ call_out.op = "none"
    /\ call_out' = [op |-> "patch_validator_yaml",
                    lines |-> PatchValidatorYaml(call_in.lines, call_in.node)]
    /\ UNCHANGED <<nodes, client_container, auto_cleanup, cmd_delay_max,
                   start_limit, node_limit, add_inputs, node_cfg, add_error,
                   custom_config, objs, call_in, ctl, host, hist, stopv>>

\* _prepare_configs on its gateway: _create_gateway_config(fullnode_yaml,
\* dest, fullnodes[0], validators).  The body never opens `source`: the
\* lines it writes depend on the gateway and the validators alone.
create_gateway_config ==
    /\ call_in.op = "create_gateway_config"
    /\ call_out.op = "none"
    /\ call_out' = [op |-> "create_gateway_config",
                    lines |-> CreateGatewayConfig(FullnodesOf(call_in.cfg)[1],
                                                  ValidatorsOf(call_in.cfg))]
    /\ UNCHANGED <<nodes, client_container, auto_cleanup, cmd_delay_max,
                   start_limit, node_limit, add_inputs, node_cfg, add_error,
                   custom_config, objs, call_in, ctl, host, hist, stopv>>

\* ------------------------------------------------------- IotaNodeConfig
\* A Python value that is an Enum member, a str, or None.
EnumOf(v) == [kind |-> "enum", v |-> v]
StrOf(v) == [kind |-> "str", v |-> v]
NoneArg == [kind |-> "none", v |-> ""]

\* NodeRole and NodeType, by the values of their members.
NodeRoleValues == {"validator", "fullnode"}
ValidatorTypes == {"consensus_validator", "archive_validator"}
FullnodeTypes == {"public_fullnode", "validator_fullnode", "indexer_fullnode"}
NodeTypeValues == ValidatorTypes \cup FullnodeTypes

\* The base ports are fields of the dataclass, with these defaults.
DefaultBases ==
    [BASE_P2P_PORT |-> BASE_P2P_PORT, BASE_RPC_PORT |-> BASE_RPC_PORT,
     BASE_METRICS_PORT |-> BASE_METRICS_PORT, PORT_STEP |-> PORT_STEP]

\* _validate without its adjustment of the role to the node_type.
AdjustRoleKeep(role, node_type) == role

\* _validate: `if self.node_type:` sets the role of the type's family.
AdjustRole(role, node_type) ==
    IF node_type.kind = "none" THEN role
    ELSE IF node_type.v \in ValidatorTypes THEN EnumOf("validator")
    ELSE IF node_type.v \in FullnodeTypes THEN EnumOf("fullnode")
    ELSE role

\* _validate: what it raises ("none": nothing), in the order of its checks.
ConfigValidateRaises(a) ==
    IF ~ValidateContainerName(a.name) THEN "Invalid node name"
    ELSE IF ~ValidateIp(a.ip) THEN "Invalid node IP"
    ELSE IF a.role.kind # "enum" /\ a.role.v \notin NodeRoleValues
         THEN "Invalid role"
    ELSE IF a.node_type.kind = "str" /\ a.node_type.v \notin NodeTypeValues
         THEN "Invalid node_type"
    ELSE IF a.port_offset < 0 THEN "Invalid port_offset"
    ELSE "none"

\* _compute_ports on an object: the ports from the object's own base fields.
InstancePorts(bases, port_offset) ==
    LET p2p == bases.BASE_P2P_PORT + (port_offset * bases.PORT_STEP)
        rpc == bases.BASE_RPC_PORT + (port_offset * bases.PORT_STEP)
        metrics == bases.BASE_METRICS_PORT + (port_offset * bases.PORT_STEP)
    IN  [raised |-> IF ~ValidatePort(p2p) THEN "Invalid P2P port"
                    ELSE IF ~ValidatePort(rpc) THEN "Invalid RPC port"
                    ELSE IF ~ValidatePort(metrics) THEN "Invalid Metrics port"
                    ELSE "none",
         p2p_port |-> p2p, rpc_port |-> rpc, metrics_port |-> metrics]

\* IotaNodeConfig(**a): __post_init__ runs _validate, then _compute_ports.
\* The result is what was raised and, when nothing was, the one object.
IotaNodeConfig(a) ==
    IF ConfigValidateRaises(a) # "none"
    THEN [raised |-> ConfigValidateRaises(a), cfg |-> <<>>]
    ELSE LET ports == InstancePorts(a.bases, a.port_offset)
             node_type == IF a.node_type.kind = "none" THEN NoneArg
                          ELSE EnumOf(a.node_type.v)
         IN  IF ports.raised # "none"
             THEN [raised |-> ports.raised, cfg |-> <<>>]
             ELSE [raised |-> "none",
                   cfg |-> << [name |-> a.name,
                               ip |-> a.ip,
                               role |-> AdjustRole(EnumOf(a.role.v), node_type),
                               node_type |-> node_type,
                               port_offset |-> a.port_offset,
                               image |-> a.image,
                               p2p_port |-> ports.p2p_port,
                               rpc_port |-> ports.rpc_port,
                               metrics_port |-> ports.metrics_port,
                               bases |-> a.bases] >>]

\* ValidatorNode(config) / FullnodeNode(config): __post_init__ raises
\* ValueError unless the config has the role of the class.
RoleOfClass(class) == IF class = "ValidatorNode" THEN "validator" ELSE "fullnode"
NodeOfClass(class, config) ==
    IF config.role # EnumOf(RoleOfClass(class)) THEN "ValueError" ELSE class

\* to_dict: role and node_type as their str(), the ports, and no base port.
ToDict(c) ==
    [name |-> c.name,
     ip |-> c.ip,
     role |-> StrOf(c.role.v),
     node_type |-> IF c.node_type.kind = "none" THEN NoneArg
                   ELSE StrOf(c.node_type.v),
     port_offset |-> c.port_offset,
     image |-> c.image,
     p2p_port |-> c.p2p_port,
     rpc_port |-> c.rpc_port,
     metrics_port |-> c.metrics_port]

\* from_dict: NodeRole(role) and NodeType(node_type) of the strings, then
\* cls(name, ip, role, node_type, port_offset, image).
FromDict(d) ==
    IF d.role.kind = "str" /\ d.role.v \notin NodeRoleValues
    THEN [raised |-> "ValueError", cfg |-> <<>>]
    ELSE IF d.node_type.kind = "str" /\ d.node_type.v \notin NodeTypeValues
    THEN [raised |-> "ValueError", cfg |-> <<>>]
    ELSE IotaNodeConfig(
            [name |-> d.name,
             ip |-> d.ip,
             role |-> EnumOf(d.role.v),
             node_type |-> IF d.node_type.kind = "none" THEN NoneArg
                           ELSE EnumOf(d.node_type.v),
             port_offset |-> d.port_offset,
             image |-> d.image,
             bases |-> DefaultBases])

\* The arguments IotaNodeConfig is constructed with: good and bad names and
\* addresses, roles and types as members and as strings, offsets below zero
\* and past the port range, and a P2P base moved away from its default.
RoleArgs ==
    {EnumOf(v) : v \in NodeRoleValues}
        \cup {StrOf(v) : v \in NodeRoleValues \cup {"gateway"}}
NodeTypeArgs ==
    {NoneArg} \cup {EnumOf(v) : v \in NodeTypeValues}
        \cup {StrOf("consensus_validator"), StrOf("light_client")}
ConfigArgs ==
    [name : {FreshName(1), FreshName(1) \o <<"\n">>, <<"N", "1">>},
     ip : {FreshIp(1), <<10, 0, 0, 256>>},
     role : RoleArgs,
     node_type : NodeTypeArgs,
     port_offset : {-1, 0, 1, 5636},
     image : {"iota-dev:latest"},
     bases : {DefaultBases, [DefaultBases EXCEPT !.BASE_P2P_PORT = 3001]}]
MakeNodeCalls ==
    [op : {"make_node"}, args : ConfigArgs,
     class : {"ValidatorNode", "FullnodeNode"}]
RoundTripCalls == [op : {"round_trip"}, args : ConfigArgs]

\* ValidatorNode(config=IotaNodeConfig(...)), or FullnodeNode likewise.
make_node ==
    /\ call_in.op = "make_node"
    /\ call_out.op = "none"
    /\ LET c == IotaNodeConfig(call_in.args)
       IN  call_out' =
             [op |-> "make_node",
              config |-> c,
              node |-> IF c.raised # "none" THEN "none"
                       ELSE NodeOfClass(call_in.class, c.cfg[1])]
    /\ UNCHANGED <<nodes, client_container, auto_cleanup, cmd_delay_max,
                   start_limit, node_limit, add_inputs, node_cfg, add_error,
                   custom_config, objs, call_in, ctl, host, hist, stopv>>

\* IotaNodeConfig.from_dict(c.to_dict()) of a constructed c.
round_trip ==
    /\ call_in.op = "round_trip"
    /\ call_out.op = "none"
    /\ LET c == IotaNodeConfig(call_in.args)
       IN  call_out' =
             [op |-> "round_trip",
              config |-> c,
              back |-> IF c.raised # "none" THEN c
                       ELSE FromDict(ToDict(c.cfg[1]))]
    /\ UNCHANGED <<nodes, client_container, auto_cleanup, cmd_delay_max,
                   start_limit, node_limit, add_inputs, node_cfg, add_error,
                   custom_config, objs, call_in, ctl, host, hist, stopv>>

\* ------------------------------------------------------------ docker_copy
\* The largest `retries` docker_copy is called with (its default is 3).
MaxRetries == 3

\* What one subprocess.run(cmd, timeout=30) of `docker cp` may do: return
\* with code 0 or with another code, raise TimeoutExpired, raise another
\* exception.
CopyOutcomes == {"rc0", "rc1", "timeout", "exception"}

\* A loop that runs once more than `retries`.
CopyAttemptsOneMore(retries) == 1..(retries + 1)

\* for attempt in range(1, retries + 1)
CopyAttempts(retries) == 1..retries

\* The loop of docker_copy from `attempt` on: what it returns and how many
\* times it ran docker cp, when the k-th run does outcomes[k].
RECURSIVE DockerCopyFrom(_, _, _)
DockerCopyFrom(attempt, retries, outcomes) ==
    IF attempt \notin CopyAttempts(retries)
    THEN [ret |-> FALSE, attempts |-> attempt - 1]
    ELSE IF outcomes[attempt] = "rc0"
    THEN [ret |-> TRUE, attempts |-> attempt]
    ELSE IF outcomes[attempt] = "exception"
    THEN [ret |-> FALSE, attempts |-> attempt]
    ELSE DockerCopyFrom(attempt + 1, retries, outcomes)

\* docker_copy(src, dst, container_name, retries): False at once when src
\* does not exist, else the loop.
DockerCopy(src_exists, retries, outcomes) ==
    IF ~src_exists THEN [ret |-> FALSE, attempts |-> 0]
    ELSE DockerCopyFrom(1, retries, outcomes)

DockerCopyCalls ==
    [op : {"docker_copy"}, src_exists : BOOLEAN, retries : 0..MaxRetries,
     outcomes : [1..(MaxRetries + 1) -> CopyOutcomes]]

docker_copy ==
    /\ call_in.op = "docker_copy"
    /\ call_out.op = "none"
    /\ LET r == DockerCopy(call_in.src_exists, call_in.retries,
                           call_in.outcomes)
       IN  call_out' = [op |-> "docker_copy", ret |-> r.ret,
                        attempts |-> r.attempts]
    /\ UNCHANGED <<nodes, client_container, auto_cleanup, cmd_delay_max,
                   start_limit, node_limit, add_inputs, node_cfg, add_error,
                   custom_config, objs, call_in, ctl, host, hist, stopv>>

\* ---------------------------------------------------------- IotaRpcClient
\* What the server and the transport do to one requests.post of _call:
\*   post    what requests.post does: it returns a response, or raises
\*           Timeout, ConnectionError, or another RequestException;
\*   status  what response.raise_for_status() does;
\*   json    whether the body parses as JSON, and json_error, the class of
\*           the exception response.json() raises when it does not: a
\*           RequestException in requests 2.27 and later, a plain ValueError
\*           before (the repository pins no version);
\*   body    the parsed value: its JSON type and, for an object, its error
\*           member and whether it has a result member.
RpcErrorMembers == {"absent", "object", "object_no_code", "string", "null"}
RpcBodies ==
    [kind : {"object", "list", "string", "number", "null"},
     error : RpcErrorMembers,
     has_result : BOOLEAN]
RpcExchanges ==
    [post : {"response", "Timeout", "ConnectionError", "RequestException"},
     status : {"ok", "HTTPError"},
     json : {"parsed", "JSONDecodeError"},
     json_error : {"RequestException", "ValueError"},
     body : RpcBodies]

\* The code and message of the error member of a response.
ErrorCode(member) == IF member = "object" THEN -32602 ELSE -1
ErrorMessage(member) ==
    IF member = "object" THEN "Invalid params" ELSE "Unknown error"

NoRaise(value) ==
    [raised |-> "none", code |-> 0, message |-> "", value |-> value]
Raises(type) == [raised |-> type, code |-> 0, message |-> "", value |-> "none"]

\* The body of the try block once response.json() has returned `body`:
\* `"error" in data`, error.get(...), data.get("result").
RpcOnBody(body) ==
    IF body.kind \in {"number", "null"} THEN Raises("TypeError")
    ELSE IF body.kind \in {"list", "string"} THEN Raises("AttributeError")
    ELSE IF body.error = "absent"
    THEN NoRaise(IF body.has_result THEN "result" ELSE "None")
    ELSE IF body.error \in {"string", "null"} THEN Raises("AttributeError")
    ELSE [raised |-> "IotaRpcError", code |-> ErrorCode(body.error),
          message |-> ErrorMessage(body.error), value |-> "none"]

\* The except clauses of _call, for an exception of requests raised in the
\* try block.
RpcOnRequestsError(class) ==
    IF class = "Timeout" THEN Raises("IotaTimeoutError")
    ELSE Raises("IotaConnectionError")

\* IotaRpcClient._call
RpcCall(x) ==
    IF x.post # "response" THEN RpcOnRequestsError(x.post)
    ELSE IF x.status # "ok" THEN RpcOnRequestsError(x.status)
    ELSE IF x.json # "parsed"
    THEN IF x.json_error = "RequestException"
         THEN RpcOnRequestsError(x.json)
         ELSE Raises("ValueError")
    ELSE RpcOnBody(x.body)

RpcCalls == [op : {"rpc_call"}, x : RpcExchanges]

rpc_call ==
    /\ call_in.op = "rpc_call"
    /\ call_out.op = "none"
    /\ call_out' = [op |-> "rpc_call", r |-> RpcCall(call_in.x)]
    /\ UNCHANGED <<nodes, client_container, auto_cleanup, cmd_delay_max,
                   start_limit, node_limit, add_inputs, node_cfg, add_error,
                   custom_config, objs, call_in, ctl, host, hist, stopv>>

\* ----------------------------------------------------- TransactionBuilder
\* A TransactionCommand, by the fields to_cli_string reads for the two types
\* the builder is used with here.
TxCommand(type, amounts, object_ids, recipient) ==
    [type |-> type, amounts |-> amounts, object_ids |-> object_ids,
     recipient |-> recipient]

\* sep.join(parts) for parts that are token texts, as one token sequence.
RECURSIVE Join(_, _)
Join(parts, sep) ==
    IF parts = <<>> THEN <<>>
    ELSE IF Len(parts) = 1 THEN <<parts[1]>>
    ELSE <<parts[1], sep>> \o Join(Tail(parts), sep)

\* TransactionCommand.to_cli_string
ToCliString(cmd) ==
    IF cmd.type = "transfer_object"
    THEN <<Tok("--transfer-objects"), Sp, Tok("'[")>>
            \o Join([i \in 1..Len(cmd.object_ids) |-> Tok(cmd.object_ids[i])], Sp)
            \o <<Tok("]'"), Sp, Tok(cmd.recipient)>>
    ELSE IF cmd.type = "split_coin"
    THEN <<Tok("--split-coins"), Sp, Tok("gas"), Sp, Tok("'[")>>
            \o Join([i \in 1..Len(cmd.amounts) |-> Num(cmd.amounts[i])], Tok(","))
            \o <<Tok("]'")>>
    ELSE <<>>

\* transfer_objects(object_ids, recipient): self.commands afterwards.
TransferObjects(commands, object_ids, recipient) ==
    Append(commands, TxCommand("transfer_object", <<>>, object_ids, recipient))

\* split_coins(amounts): self.commands afterwards.
SplitCoins(commands, amounts) ==
    Append(commands, TxCommand("split_coin", amounts, <<>>, ""))

\* transfer_iota(recipients, amounts): what it raises and self.commands
\* afterwards.  After the length check the body calls split_coins(amounts)
\* and logs; it adds no transfer.
TransferIota(commands, recipients, amounts) ==
    IF Len(recipients) # Len(amounts)
    THEN [raised |-> "ValueError", commands |-> commands]
    ELSE [raised |-> "none", commands |-> SplitCoins(commands, amounts)]

\* " ".join of the command strings, as one token sequence.
RECURSIVE CommandParts(_)
CommandParts(commands) ==
    IF commands = <<>> THEN <<>>
    ELSE <<Sp>> \o ToCliString(Head(commands)) \o CommandParts(Tail(commands))

\* build_cli_command
BuildCliCommand(sender, gas_budget, commands) ==
    IF commands = <<>> THEN [raised |-> "ValueError", cli |-> <<>>]
    ELSE [raised |-> "none",
          cli |-> <<Tok("iota"), Sp, Tok("client"), Sp, Tok("ptb")>>
                    \o CommandParts(commands)
                    \o <<Sp, Tok("--sender"), Sp, Tok(sender), Sp,
                         Tok("--gas-budget"), Sp, Num(gas_budget)>>]

\* Lists of up to MaxListLen recipients and amounts, for a builder that is
\* new or already holds one transfer of an object.
TxLists(S) == UNION {[1..k -> S] : k \in 0..MaxListLen}
TransferIotaCalls ==
    [op : {"transfer_iota"},
     sender : {"0xA"},
     commands : {<<>>, TransferObjects(<<>>, <<"0x111">>, "0xD")},
     recipients : TxLists({"0xB", "0xC"}),
     amounts : TxLists({1, 2})]

\* tx.transfer_iota(recipients, amounts), then tx.build_cli_command() when
\* nothing was raised.
transfer_iota ==
    /\ call_in.op = "transfer_iota"
    /\ call_out.op = "none"
    /\ LET r == TransferIota(call_in.commands, call_in.recipients,
                             call_in.amounts)
       IN  call_out' =
             [op |-> "transfer_iota",
              raised |-> r.raised,
              commands |-> r.commands,
              built |-> IF r.raised # "none"
                        THEN [raised |-> "not called", cli |-> <<>>]
                        ELSE BuildCliCommand(call_in.sender, 10000000,
                                             r.commands)]
    /\ UNCHANGED <<nodes, client_container, auto_cleanup, cmd_delay_max,
                   start_limit, node_limit, add_inputs, node_cfg, add_error,
                   custom_config, objs, call_in, ctl, host, hist, stopv>>

\* ------------------------------------------- _prepare_configs: templates
\* Base names of *.y*ml files the genesis directory may hold, as the words a
\* substring test can find in them, in the order sorted() gives them.
YamlPool ==
    << <<"client", ".yaml">>, <<"fullnode", ".yaml">>, <<"network", ".yaml">>,
       <<"validator", "-1", ".yaml">>, <<"validator", "-2", ".yaml">> >>

\* `skip in base`
NameHas(base, word) == \E i \in 1..Len(base) : base[i] = word

\* The files of the pool with index in `present`, still sorted.
YamlFiles(present) == SelectSeq(YamlPool, LAMBDA f :
                          \E i \in present : YamlPool[i] = f)

\* validator_yamls: the files whose name holds none of "client",
\* "iota_config", "fullnode".
ValidatorYamls(yaml_files) ==
    SelectSeq(yaml_files, LAMBDA f :
        ~\E skip \in {"client", "iota_config", "fullnode"} : NameHas(f, skip))

\* template = validator_yamls[i % len(validator_yamls)], i counted from 0.
ValidatorTemplate(i, validator_yamls) ==
    validator_yamls[(i % Len(validator_yamls)) + 1]

\* next((f for f in yaml_files if "fullnode" in basename), validator_yamls[0])
FullnodeYaml(yaml_files, validator_yamls) ==
    LET found == SelectSeq(yaml_files, LAMBDA f : NameHas(f, "fullnode"))
    IN IF found # <<>> THEN found[1] ELSE validator_yamls[1]

\* The template _prepare_configs compiles each validator from, and the
\* gateway when there is one (<<>>: no gateway).
PrepareTemplates(yaml_files, nv, gateway) ==
    LET validator_yamls == ValidatorYamls(yaml_files)
    IN IF validator_yamls = <<>>
       THEN [raised |-> "RuntimeError", validators |-> <<>>, gateway |-> <<>>]
       ELSE [raised |-> "none",
             validators |-> [k \in 1..nv |->
                               ValidatorTemplate(k - 1, validator_yamls)],
             gateway |-> IF gateway
                         THEN FullnodeYaml(yaml_files, validator_yamls)
                         ELSE <<>>]

PrepareTemplatesCalls ==
    [op : {"prepare_templates"},
     present : SUBSET (1..Len(YamlPool)),
     nv : 1..MaxListLen,
     gateway : BOOLEAN]

prepare_templates ==
    /\ call_in.op = "prepare_templates"
    /\ call_out.op = "none"
    /\ call_out' =
          [op |-> "prepare_templates",
           templates |-> PrepareTemplates(YamlFiles(call_in.present),
                                          call_in.nv, call_in.gateway)]
    /\ UNCHANGED <<nodes, client_container, auto_cleanup, cmd_delay_max,
                   start_limit, node_limit, add_inputs, node_cfg, add_error,
                   custom_config, objs, call_in, ctl, host, hist, stopv>>

\* ------------------------------------------------------------------ IotaCLI
\* The four methods that take a sender.
SenderMethods == {"transfer_object", "pay_iota", "publish_package",
                  "call_function"}

\* What `iota client active-address` gives get_active_address: text with
\* the 64-digit address, text without one, or container.cmd raises.
ReadOutcomes == {"address", "no_match", "raises"}

\* What `iota client switch` does: the wallet switches, the command fails
\* and prints why, or container.cmd raises (the wallet did not switch).
SwitchOutcomes == {"switched", "refused", "raises"}

\* What the command of the method gives: text with a transaction digest,
\* text without one, or container.cmd raises.
ExecuteOutcomes == {"digest", "no_digest", "raises"}

\* get_active_address: the address, None, or IotaClientException.
GetActiveAddress(active, outcome) ==
    IF outcome = "raises"
    THEN [raised |-> "IotaClientException", value |-> NoneValue]
    ELSE [raised |-> "none",
          value |-> IF outcome = "address" THEN active ELSE NoneValue]

\* switch_address(address): the wallet's active address afterwards, and
\* whether _execute raised.
SwitchAddress(active, address, outcome) ==
    [raised |-> IF outcome = "raises" THEN "IotaClientException" ELSE "none",
     active |-> IF outcome = "switched" THEN address ELSE active]

\* The body of the try block: what it raises.  transfer_object and pay_iota
\* raise without a digest in the output; the other two return what they
\* found.
TryBody(method, outcome) ==
    IF outcome = "raises" THEN "IotaClientException"
    ELSE IF outcome = "no_digest" /\ method \in {"transfer_object", "pay_iota"}
    THEN "TransactionFailedException"
    ELSE "none"

\* `finally: if sender and original: self.switch_address(original)`
Restore(active, sender, original, outcome) ==
    IF sender # NoneValue /\ original # NoneValue
    THEN SwitchAddress(active, original, outcome)
    ELSE [raised |-> "none", active |-> active]

\* One of the four methods, from `original = None` to the end of finally:
\* what it raised and the wallet's active address afterwards.
CallWithSender(x) ==
    IF x.sender = NoneValue
    THEN [raised |-> TryBody(x.method, x.execute), active |-> x.active]
    ELSE LET read == GetActiveAddress(x.active, x.read)
         IN IF read.raised # "none"
            THEN [raised |-> read.raised, active |-> x.active]
            ELSE LET to_sender == SwitchAddress(x.active, x.sender, x.switch)
                 IN IF to_sender.raised # "none"
                    THEN to_sender
                    ELSE LET body == TryBody(x.method, x.execute)
                             back == Restore(to_sender.active, x.sender,
                                             read.value, x.switch_back)
                         IN [raised |-> IF back.raised # "none"
                                        THEN back.raised ELSE body,
                             active |-> back.active]

SenderCalls ==
    [op : {"call_with_sender"},
     method : SenderMethods,
     active : {"0xA"},
     sender : {NoneValue, "0xA", "0xB"},
     read : ReadOutcomes,
     switch : SwitchOutcomes,
     execute : ExecuteOutcomes,
     switch_back : SwitchOutcomes]

call_with_sender ==
    /\ call_in.op = "call_with_sender"
    /\ call_out.op = "none"
    /\ LET r == CallWithSender(call_in)
       IN call_out' = [op |-> "call_with_sender", raised |-> r.raised,
                       active |-> r.active]
    /\ UNCHANGED <<nodes, client_container, auto_cleanup, cmd_delay_max,
                   start_limit, node_limit, add_inputs, node_cfg, add_error,
                   custom_config, objs, call_in, ctl, host, hist, stopv>>

\* ---------------------------------------- SmartContractManager.publish_package
\* Largest value of a gas coin, and largest gas budget, in MIST.
MaxCoinValue == 2
MaxGasBudget == 3

\* What `iota client gas <address>` prints: a listing of the coins, with a
\* line per coin that the pattern (balance|value): <digits> matches or not,
\* or text holding "TIMEOUT", "No gas coins" or "error".
GasOutputs == {"listing", "listing_unmatched", "TIMEOUT", "No gas coins",
               "error"}

RECURSIVE SumSeq(_)
SumSeq(q) == IF q = <<>> THEN 0 ELSE Head(q) + SumSeq(Tail(q))

\* AccountManager.get_balance for an account that exists: the total of the
\* values the pattern finds, 0 when the query gave no listing.
GetBalance(coins, output) ==
    IF output \in {"TIMEOUT", "No gas coins", "error"} THEN 0
    ELSE IF output = "listing" THEN SumSeq(coins)
    ELSE 0

\* publish_package without its check of the balance.
InsufficientNever(balance, gas_budget) == FALSE

\* `if balance < gas_budget: raise RuntimeError`
Insufficient(balance, gas_budget) == balance < gas_budget

\* What the publish command prints, by what the code reads in it: no JSON,
\* JSON that is no object, effects.status.status other than "success", no
\* objectChanges of type "published", a published change without
\* packageId, a published change with one.
PublishOutputs == {"not_json", "json_list", "failure", "nothing_published",
                   "no_package_id", "published"}

\* The part of publish_package after self.client.cmd(cmd): what it raises,
\* and self.deployed_packages afterwards (a set of name and package id).
AfterPublish(deployed, name, output) ==
    IF output = "not_json"
    THEN [raised |-> "RuntimeError", deployed |-> deployed]
    ELSE IF output = "json_list"
    THEN [raised |-> "AttributeError", deployed |-> deployed]
    ELSE IF output \in {"failure", "nothing_published"}
    THEN [raised |-> "RuntimeError", deployed |-> deployed]
    ELSE IF output = "no_package_id"
    THEN [raised |-> "KeyError", deployed |-> deployed]
    ELSE [raised |-> "none",
          deployed |-> {d \in deployed : d.name # name}
                           \cup {[name |-> name, package_id |-> "0xNEW"]}]

\* publish_package(package_path, sender_alias, gas_budget): what it raises,
\* the commands it sent to the client container, and deployed_packages
\* afterwards.
PublishPackage(x) ==
    IF ~x.account
    THEN [raised |-> "ValueError", sent |-> <<>>, deployed |-> x.deployed]
    ELSE IF Insufficient(GetBalance(x.coins, x.gas_output), x.gas_budget)
    THEN [raised |-> "RuntimeError", sent |-> <<"gas">>,
          deployed |-> x.deployed]
    ELSE LET r == AfterPublish(x.deployed, x.name, x.publish_output)
         IN [raised |-> r.raised, sent |-> <<"gas", "publish">>,
             deployed |-> r.deployed]

\* The gas listing shows the coins the sender has; "No gas coins" is what
\* the command prints for a sender with none.
PublishCalls ==
    {x \in [op : {"publish_package"},
            name : {"counter"},
            account : BOOLEAN,
            coins : UNION {[1..k -> 0..MaxCoinValue] : k \in 0..MaxListLen},
            gas_output : GasOutputs,
            gas_budget : 1..MaxGasBudget,
            publish_output : PublishOutputs,
            deployed : {{}, {[name |-> "counter", package_id |-> "0xOLD"]},
                        {[name |-> "other", package_id |-> "0xOLD"]}}] :
        /\ x.gas_output = "No gas coins" => x.coins = <<>>
        /\ x.gas_output \in {"listing", "listing_unmatched"} => x.coins # <<>>}

publish_package ==
    /\ call_in.op = "publish_package"
    /\ call_out.op = "none"
    /\ LET r == PublishPackage(call_in)
       IN call_out' = [op |-> "publish_package", raised |-> r.raised,
                       sent |-> r.sent, deployed |-> r.deployed]
    /\ UNCHANGED <<nodes, client_container, auto_cleanup, cmd_delay_max,
                   start_limit, node_limit, add_inputs, node_cfg, add_error,
                   custom_config, objs, call_in, ctl, host, hist, stopv>>

\* ------------------------------------------------------------------ SpecLib
\* One call of a function of the library, with arguments from the sets above.
LibCalls ==
    ComputePortsCalls \cup ValidateNetworkCalls \cup PatchCalls
        \cup GatewayCalls \cup MakeNodeCalls \cup RoundTripCalls
        \cup DockerCopyCalls \cup RpcCalls \cup TransferIotaCalls
        \cup PrepareTemplatesCalls \cup SenderCalls \cup PublishCalls

InitLib ==
    /\ nodes = <<>>
    /\ client_container = FALSE
    /\ auto_cleanup = FALSE
    /\ cmd_delay_max = 0
    /\ start_limit = 0
    /\ node_limit = 0
    /\ add_inputs = "fresh"
    /\ node_cfg = <<>>
    /\ add_error = "none"
    /\ custom_config = NoBlobs
    /\ metadata = NewMetadata
    /\ meta_log = NoMetaCalls
    /\ peers = NoPeers
    /\ call_in \in LibCalls
    /\ call_out = NoCall
    /\ pc = "idle"
    /\ bi = 0
    /\ sleeps = <<>>
    /\ elapsed = 0
    /\ starts = 0
    /\ result = "none"
    /\ error = NoError
    /\ work_dir = NoWorkDir
    /\ procs = [n \in NodeIds |-> 0]
    /\ pid_alive = [n \in NodeIds |-> FALSE]
    /\ port_open = [n \in NodeIds |-> FALSE]
    /\ client_rpc = 0
    /\ genesis_run = NoRun
    /\ compiled = {}
    /\ injected = {}
    /\ launched = {}
    /\ alive_seen = {}
    /\ wait_passed = {}
    /\ port_seen = {}
    /\ port_passed = {}
    /\ ready = "none"
    /\ client_wired = FALSE
    /\ wait_log = NoWait
    /\ stop_log = NoStop
    /\ consec_stops = 0

NextLib ==
    \/ compute_ports
    \/ validate_network_config
    \/ patch_validator_yaml
    \/ create_gateway_config
    \/ make_node
    \/ round_trip
    \/ docker_copy
    \/ rpc_call
    \/ transfer_iota
    \/ prepare_templates
    \/ call_with_sender
    \/ publish_package

SpecLib == InitLib /\ [][NextLib]_vars

\* ----------------------------------------------------------------- SpecMeta
\* Calls of set_status a test or an application makes on one metadata object.
MaxStatusCalls == 3

\* status: str, "created, injecting, booting, running, error, stopped".
Statuses == {"created", "injecting", "booting", "running", "error", "stopped"}

\* error: Optional[str]: None, the empty text, a message.
ErrorArgs == {NoneValue, "", "Connection failed"}

\* set_status that leaves the recorded error as it was.
SetStatusKeepError(m, status, err) == [m EXCEPT !.status = status]

\* IotaNodeMetadata.set_status: self.status = status; self.error = error.
SetStatus(m, status, err) == [status |-> status, error |-> err]

\* IotaNodeMetadata.is_ready
IsReady(m) == m.status = "running" /\ m.error = NoneValue

set_status ==
    /\ meta_log.calls < MaxStatusCalls
    /\ \E status \in Statuses, err \in ErrorArgs :
          /\ metadata' = SetStatus(metadata, status, err)
          /\ meta_log' = [calls |-> meta_log.calls + 1,
                          prev_status |-> metadata.status,
                          last_error |-> err,
                          ready |-> "unasked"]
    /\ UNCHANGED <<nodes, client_container, auto_cleanup, cmd_delay_max,
                   start_limit, node_limit, add_inputs, node_cfg, add_error,
                   custom_config, peers, call_in, call_out, ctl, host, hist,
                   stopv>>

is_ready ==
    /\ meta_log.ready = "unasked"
    /\ meta_log' =
          [meta_log EXCEPT !.ready = IF IsReady(metadata) THEN "yes" ELSE "no"]
    /\ UNCHANGED <<nodes, client_container, auto_cleanup, cmd_delay_max,
                   start_limit, node_limit, add_inputs, node_cfg, add_error,
                   custom_config, metadata, peers, call_in, call_out, ctl, host,
                   hist, stopv>>

InitMeta ==
    /\ nodes = <<>>
    /\ client_container = FALSE
    /\ auto_cleanup = FALSE
    /\ cmd_delay_max = 0
    /\ start_limit = 0
    /\ node_limit = 0
    /\ add_inputs = "fresh"
    /\ node_cfg = <<>>
    /\ add_error = "none"
    /\ custom_config = NoBlobs
    /\ metadata = NewMetadata
    /\ meta_log = NoMetaCalls
    /\ peers = NoPeers
    /\ call_in = NoCall
    /\ call_out = NoCall
    /\ pc = "idle"
    /\ bi = 0
    /\ sleeps = <<>>
    /\ elapsed = 0
    /\ starts = 0
    /\ result = "none"
    /\ error = NoError
    /\ work_dir = NoWorkDir
    /\ procs = [n \in NodeIds |-> 0]
    /\ pid_alive = [n \in NodeIds |-> FALSE]
    /\ port_open = [n \in NodeIds |-> FALSE]
    /\ client_rpc = 0
    /\ genesis_run = NoRun
    /\ compiled = {}
    /\ injected = {}
    /\ launched = {}
    /\ alive_seen = {}
    /\ wait_passed = {}
    /\ port_seen = {}
    /\ port_passed = {}
    /\ ready = "none"
    /\ client_wired = FALSE
    /\ wait_log = NoWait
    /\ stop_log = NoStop
    /\ consec_stops = 0

NextMeta ==
    \/ set_status
    \/ is_ready

SpecMeta == InitMeta /\ [][NextMeta]_vars

\* ---------------------------------------------------- two IotaNetworks
\* WORK_DIR, GENESIS_DIR and LIVE_DATA_DIR are module constants: every
\* IotaNetwork object on the host works in /tmp/fogbed_iota_workdir.  The
\* two objects may live in one program or in two; each one's start() goes
\* through its steps in order, and the steps of the two interleave.
PeerIds == 1..2

PeerUnchanged ==
    UNCHANGED <<nodes, client_container, auto_cleanup, cmd_delay_max,
                start_limit, node_limit, add_inputs, node_cfg, add_error,
                custom_config, metadata, meta_log, call_in, call_out, ctl,
                host, hist, stopv>>

\* The object moves to `pc`; `uses` says whether it still counts on the
\* files it put in WORK_DIR.
PeerAt(i, at, uses) ==
    [peers.inst EXCEPT ![i] = [@ EXCEPT !.pc = at, !.uses = uses]]

\* _cleanup: rmtree(WORK_DIR) when it exists, then makedirs of both parts.
PeerCleanup(i, wd) ==
    [exists |-> TRUE, made_by |-> i, genesis_by |-> 0, configs_by |-> 0]

\* _cleanup_work_dir: rmtree(WORK_DIR) when it exists; a failure is logged.
PeerCleanupWorkDir(wd, rm_ok) == IF wd.exists /\ rm_ok THEN NoPeerDir ELSE wd

\* start(), up to the end of _cleanup.
peer_start(i) ==
    /\ peers.inst[i].pc \in {"idle", "started"}
    /\ \E rm_ok \in RmtreeOutcomes(peers.work_dir.exists) :
         peers' = IF rm_ok
                  THEN [work_dir |-> PeerCleanup(i, peers.work_dir),
                        inst |-> PeerAt(i, "genesis", TRUE)]
                  ELSE [peers EXCEPT !.inst = PeerAt(i, "idle", FALSE)]
    /\ PeerUnchanged

\* _generate_genesis: the tool writes into GENESIS_DIR with --force, or
\* fails; genesis.blob must exist afterwards.
peer_generate_genesis(i) ==
    /\ peers.inst[i].pc = "genesis"
    /\ \E tool_ok \in BOOLEAN :
         peers' = IF tool_ok
                  THEN [work_dir |-> [peers.work_dir EXCEPT
                                         !.exists = TRUE, !.genesis_by = i],
                        inst |-> PeerAt(i, "prepare", TRUE)]
                  ELSE [peers EXCEPT !.inst = PeerAt(i, "idle", TRUE)]
    /\ PeerUnchanged

\* _prepare_configs: raises without validator templates in GENESIS_DIR,
\* else writes the node directories under LIVE_DATA_DIR.
peer_prepare_configs(i) ==
    /\ peers.inst[i].pc = "prepare"
    /\ peers' = IF peers.work_dir.exists /\ peers.work_dir.genesis_by # 0
                THEN [work_dir |-> [peers.work_dir EXCEPT !.configs_by = i],
                      inst |-> PeerAt(i, "inject", TRUE)]
                ELSE [peers EXCEPT !.inst = PeerAt(i, "idle", TRUE)]
    /\ PeerUnchanged

\* _inject_and_boot and the rest of start(): raises when a node directory
\* is missing, or for a reason of its own.
peer_inject_and_boot(i) ==
    /\ peers.inst[i].pc = "inject"
    /\ \E boot_ok \in BOOLEAN :
         peers' = [peers EXCEPT !.inst =
                     IF /\ peers.work_dir.exists
                        /\ peers.work_dir.configs_by # 0
                        /\ boot_ok
                     THEN PeerAt(i, "started", TRUE)
                     ELSE PeerAt(i, "idle", TRUE)]
    /\ PeerUnchanged

\* stop(), called between two calls of start(): with auto_cleanup it ends
\* in _cleanup_work_dir.
peer_stop(i) ==
    /\ peers.inst[i].pc \in {"idle", "started"}
    /\ \E rm_ok \in RmtreeOutcomes(peers.work_dir.exists) :
         peers' = [work_dir |->
                     IF peers.inst[i].auto_cleanup
                     THEN PeerCleanupWorkDir(peers.work_dir, rm_ok)
                     ELSE peers.work_dir,
                   inst |-> PeerAt(i, "idle", FALSE)]
    /\ PeerUnchanged

\* SIGINT or SIGTERM in the program of an object with auto_cleanup:
\* _signal_handler calls stop() and sys.exit(0), and _cleanup_on_exit calls
\* _cleanup_work_dir once more.
peer_signal_handler(i) ==
    /\ peers.inst[i].pc # "exited"
    /\ peers.inst[i].auto_cleanup
    /\ \E rm_ok \in RmtreeOutcomes(peers.work_dir.exists) :
       \E rm_ok2 \in RmtreeOutcomes(peers.work_dir.exists /\ ~rm_ok) :
         peers' = [work_dir |->
                     PeerCleanupWorkDir(
                         PeerCleanupWorkDir(peers.work_dir, rm_ok), rm_ok2),
                   inst |-> PeerAt(i, "exited", FALSE)]
    /\ PeerUnchanged

InitPeers ==
    /\ nodes = <<>>
    /\ client_container = FALSE
    /\ auto_cleanup = FALSE
    /\ cmd_delay_max = 0
    /\ start_limit = 0
    /\ node_limit = 0
    /\ add_inputs = "fresh"
    /\ node_cfg = <<>>
    /\ add_error = "none"
    /\ custom_config = NoBlobs
    /\ metadata = NewMetadata
    /\ meta_log = NoMetaCalls
    /\ \E ac \in [PeerIds -> BOOLEAN] :
         peers = [NoPeers EXCEPT !.inst =
                    [i \in PeerIds |-> [@[i] EXCEPT !.auto_cleanup = ac[i]]]]
    /\ call_in = NoCall
    /\ call_out = NoCall
    /\ pc = "idle"
    /\ bi = 0
    /\ sleeps = <<>>
    /\ elapsed = 0
    /\ starts = 0
    /\ result = "none"
    /\ error = NoError
    /\ work_dir = NoWorkDir
    /\ procs = [n \in NodeIds |-> 0]
    /\ pid_alive = [n \in NodeIds |-> FALSE]
    /\ port_open = [n \in NodeIds |-> FALSE]
    /\ client_rpc = 0
    /\ genesis_run = NoRun
    /\ compiled = {}
    /\ injected = {}
    /\ launched = {}
    /\ alive_seen = {}
    /\ wait_passed = {}
    /\ port_seen = {}
    /\ port_passed = {}
    /\ ready = "none"
    /\ client_wired = FALSE
    /\ wait_log = NoWait
    /\ stop_log = NoStop
    /\ consec_stops = 0

NextPeers ==
    \E i \in PeerIds :
        \/ peer_start(i)
        \/ peer_generate_genesis(i)
        \/ peer_prepare_configs(i)
        \/ peer_inject_and_boot(i)
        \/ peer_stop(i)
        \/ peer_signal_handler(i)

SpecPeers == InitPeers /\ [][NextPeers]_vars


\* ================================================================== claims

\* The process-alive wait of node n is over: it returned or it raised.
ProcessWaitOver(n) ==
    \/ n \in wait_passed
    \/ error.stage = "process_wait" /\ error.node = n

\* The port wait of node n is over: it returned or it raised.
PortWaitOver(n) ==
    \/ n \in port_passed
    \/ error.stage = "port_wait" /\ error.node = n

\* C1: no gateway is injected or started until every validator has been
\* injected, started and has passed its process-alive wait with its process
\* seen alive; and once a validator's process-alive check has failed (its wait
\* is over and no poll saw the process alive) no gateway is attempted and
\* start() does not end in success.
C1_GatewayOnlyAfterLiveValidators ==
    /\ \A g \in Fullnodes : g \in injected \cup launched =>
          \A v \in Validators :
             v \in injected /\ v \in launched /\ v \in wait_passed
                /\ v \in alive_seen
    /\ (\E v \in Validators : ProcessWaitOver(v) /\ v \notin alive_seen) =>
          /\ Fullnodes \cap (injected \cup launched) = {}
          /\ result # "ok"

\* C3: _wait_node_process returns normally only if some poll observed the
\* process alive; when no poll until the deadline did, the wait ends in an
\* error for that node that carries its log tail.
C3_ProcessWaitNeedsLiveProcess ==
    \A n \in NodeIds :
        /\ n \in wait_passed => n \in alive_seen
        /\ (ProcessWaitOver(n) /\ n \notin alive_seen) =>
              error = [stage |-> "process_wait", node |-> n, log_tail |-> TRUE]

\* C4: _wait_port_open returns normally only if some poll observed the RPC
\* port listening; when no poll until the timeout did, it ends in a
\* provisioning error for that node that carries its log tail.
C4_PortWaitNeedsListeningPort ==
    \A n \in NodeIds :
        /\ n \in port_passed => n \in port_seen
        /\ (PortWaitOver(n) /\ n \notin port_seen) =>
              error = [stage |-> "port_wait", node |-> n, log_tail |-> TRUE]

\* C5: the endpoint _configure_client writes is the RPC address of a gateway
\* that reached PortConfirmed (its port was seen listening and its port wait
\* returned); without such a gateway nothing is written for the client.
C5_ClientPointsAtConfirmedGateway ==
    client_wired =>
        /\ client_rpc \in Fullnodes
        /\ client_rpc \in port_seen
        /\ client_rpc \in port_passed

\* C10: every wait of the boot path ends, by returning or raising, no later
\* than its timeout plus one poll interval after it computed its deadline.
C10_WaitsEndOnTime == wait_log.on_time

\* This run's genesis generation succeeded: there was a validator, the tool
\* exited zero and genesis.blob exists.
GenesisSucceeded ==
    /\ genesis_run.done
    /\ genesis_run.validators >= 1
    /\ genesis_run.tool = "exit_zero"
    /\ genesis_run.blob

\* C2: config compilation and every node injection and start happen only
\* after this run's genesis generation succeeded; when the tool is missing or
\* exits non-zero, or exits zero without a genesis blob, or there is no
\* validator, start() fails with a genesis error, no config is compiled and no
\* node is injected or started.
C2_GenesisBeforeEverything ==
    /\ (\/ compiled # {} \/ injected # {} \/ launched # {}
        \/ pc \in {"prepare", "inject", "launch", "proc_wait", "port_wait",
                   "ready_wait", "configure_client", "sc_env"}
        \/ result = "ok")
         => GenesisSucceeded
    /\ (genesis_run.done /\ ~GenesisSucceeded) =>
          /\ result = "failed"
          /\ error.stage = "genesis"
          /\ compiled = {} /\ injected = {} /\ launched = {}

\* C2 witness: the tool exited zero, left no blob, and start() failed with a
\* genesis error.
C2_Witness ==
    /\ result = "failed"
    /\ error.stage = "genesis"
    /\ genesis_run.validators >= 1
    /\ genesis_run.tool = "exit_zero"
    /\ ~genesis_run.blob

C7_NoProcessLeftAfterAbort ==
    (result = "failed" /\ pc = "idle" /\ ~stop_log.ran) =>
        \A n \in launched : procs[n] = 0

\* C7 amended: the step that raises ends start() at once and leaves the node
\* processes as they are; once start() has failed, no further boot step runs,
\* and the processes it started stay until a stop() kills them.
C7_AbortSkipsTheRest ==
    [][ /\ (result # "failed" /\ result' = "failed") =>
              /\ pc' = "idle"
              /\ procs' = procs
              /\ pid_alive' = pid_alive
        /\ (result = "failed" /\ result' = "failed") =>
              /\ UNCHANGED <<genesis_run, compiled, injected, launched,
                             wait_passed, port_passed, ready, client_wired,
                             client_rpc>>
              /\ procs' = procs \/ stop_log'.ran
      ]_vars

\* C7 witness: start() failed while injecting a node, and a node it had
\* started before is still running.
C7_Witness ==
    /\ result = "failed"
    /\ pc = "idle"
    /\ error.stage = "inject"
    /\ ~stop_log.ran
    /\ \E n \in launched : procs[n] > 0

\* A stop() has run and nothing but the environment has acted since.
StopJustRan == stop_log.ran /\ consec_stops >= 1

CfgIndices == 1..Len(node_cfg)

\* C11: an add with a name or an address already in the topology fails, so
\* the names of the nodes of a network are pairwise distinct and so are
\* their addresses.
C11_NamesAndAddressesDistinct ==
    \A i, j \in CfgIndices :
        i # j => /\ node_cfg[i].name # node_cfg[j].name
                 /\ node_cfg[i].ip_addr # node_cfg[j].ip_addr

\* The name pattern as documented: the whole name is 1 to 63 characters, each
\* a lowercase letter, a digit, a dash or an underscore.
NameMatchesPattern(name) ==
    /\ Len(name) \in 1..63
    /\ \A i \in 1..Len(name) : name[i] \in NameChars

\* C12: an add whose name does not match the pattern, whose address is
\* malformed or whose offset is negative fails and appends nothing, so every
\* node of the topology has a name that matches the pattern, a well-formed
\* address and a non-negative offset, and after a failed add the node list
\* is as long as the offsets handed out.
C12_OnlyValidNodesAdded ==
    /\ \A i \in CfgIndices :
          /\ NameMatchesPattern(node_cfg[i].name)
          /\ ValidateIp(node_cfg[i].ip_addr)
          /\ node_cfg[i].port_offset >= 0
    /\ add_error # "none" => Len(node_cfg) = Len(nodes)

\* C13: the i-th added node, counting from 0, has port_offset i and P2P port
\* 2001 + 10*i; validators at offsets 0, 1, 2 and a gateway at offset 3 have
\* the P2P ports 2001, 2011, 2021 and 2031.
C13_OffsetIsInsertionIndex ==
    /\ Len(node_cfg) = Len(nodes)
    /\ \A i \in CfgIndices :
          /\ node_cfg[i].role = nodes[i]
          /\ node_cfg[i].port_offset = i - 1
          /\ node_cfg[i].p2p_port = 2001 + 10 * (i - 1)
    /\ nodes = <<"validator", "validator", "validator", "fullnode">> =>
          [i \in 1..4 |-> node_cfg[i].p2p_port] = <<2001, 2011, 2021, 2031>>

\* C13 witness: three validators and then a gateway were added.
C13_Witness ==
    /\ nodes = <<"validator", "validator", "validator", "fullnode">>
    /\ Len(node_cfg) = 4
    /\ node_cfg[4].role = "fullnode"
    /\ node_cfg[4].port_offset = 3
    /\ node_cfg[4].p2p_port = 2031

\* C14: two nodes of a network with different offsets have different P2P
\* ports, different RPC ports and different metrics ports.
C14_DerivedPortsDiffer ==
    \A i, j \in CfgIndices :
        node_cfg[i].port_offset # node_cfg[j].port_offset =>
            /\ node_cfg[i].p2p_port # node_cfg[j].p2p_port
            /\ node_cfg[i].rpc_port # node_cfg[j].rpc_port
            /\ node_cfg[i].metrics_port # node_cfg[j].metrics_port

\* The ports of a compute_ports result.
PortsOf(r) == {r.p2p_port, r.rpc_port, r.metrics_port}

HasDuplicate(all) ==
    \E i, j \in 1..Len(all) :
        i # j /\ (all[i].name = all[j].name \/ all[i].ip = all[j].ip)

\* C17: validate_network_config returns ok exactly for the topologies with
\* at least one validator and no duplicate name or address across
\* validators and fullnodes.
C17_TopologyValidation ==
    call_out.op = "validate_network_config" =>
        LET all == call_in.validators \o call_in.fullnodes
        IN  /\ call_out.ok <=>
                  (Len(call_in.validators) >= 1 /\ ~HasDuplicate(all))
            /\ call_out.ok <=> call_out.errors = <<>>

\* C17 witness: a topology whose only duplicate is an address shared by a
\* validator and a fullnode was rejected.
C17_Witness ==
    /\ call_out.op = "validate_network_config"
    /\ ~call_out.ok
    /\ Len(call_in.validators) = 1
    /\ Len(call_in.fullnodes) = 1
    /\ call_in.validators[1].name # call_in.fullnodes[1].name
    /\ call_in.validators[1].ip = call_in.fullnodes[1].ip

\* Reading a line of a YAML file back: its leading whitespace depth, its key
\* and its value, without the line end, a list marker or enclosing quotes.
StripNl(line) ==
    IF line # <<>> /\ line[Len(line)] = Nl
    THEN SubSeq(line, 1, Len(line) - 1)
    ELSE line
Unquote(toks) ==
    IF Len(toks) >= 2 /\ toks[1] = Quote /\ toks[Len(toks)] = Quote
    THEN SubSeq(toks, 2, Len(toks) - 1)
    ELSE toks
ParseLine(line) ==
    LET body == LStrip(StripNl(line))
        item == IF Len(body) >= 2 /\ body[1] = Tok("-") /\ body[2] = Sp
                THEN SubSeq(body, 3, Len(body))
                ELSE body
    IN  [depth |-> Len(StripNl(line)) - Len(body),
         key   |-> IF item = <<>> THEN "" ELSE item[1].s,
         value |-> IF Len(item) >= 3
                   THEN Unquote(SubSeq(item, 3, Len(item)))
                   ELSE <<>>]

\* The entries of the seed-peers list of a config: the lines that follow the
\* seed-peers key.
SeedPeerEntries(lines) ==
    LET at == CHOOSE i \in 1..Len(lines) : ParseLine(lines[i]).key = "seed-peers:"
    IN  [k \in 1..(Len(lines) - at) |-> ParseLine(lines[at + k])]

\* The external address a validator advertises: what its compiled config
\* holds for a template line `external-address: ...`.
AdvertisedAddress(v) ==
    ParseLine(PatchValidatorYaml(
                  << <<Sp, Sp, Tok("external-address:"), Sp, Tok("old"), Nl>> >>,
                  v)[1]).value

\* C18: the seed-peer list of the compiled gateway config has one entry per
\* validator, the k-th being the advertised P2P address (protocol, IP and
\* port) of the k-th validator in insertion order, and none for a gateway.
C18_SeedPeersAreTheValidators ==
    call_out.op = "create_gateway_config" =>
        LET vs == ValidatorsOf(call_in.cfg)
            gs == FullnodesOf(call_in.cfg)
            seeds == SeedPeerEntries(call_out.lines)
        IN  /\ Len(seeds) = Len(vs)
            /\ \A k \in 1..Len(seeds) :
                  /\ seeds[k].key = "address:"
                  /\ seeds[k].value = AdvertisedAddress(vs[k])
                  /\ seeds[k].value =
                        <<Tok("/ip4/")>> \o IpToks(vs[k].ip_addr)
                            \o <<Tok("/tcp/"), Num(2001 + 10 * vs[k].port_offset)>>
            /\ \A k \in 1..Len(seeds), g \in 1..Len(gs) :
                  seeds[k].value # AdvertisedAddress(gs[g])

\* C18 witness: the gateway was added between two validators, and its config
\* lists the two of them.
C18_Witness ==
    /\ call_out.op = "create_gateway_config"
    /\ Len(call_in.cfg) = 3
    /\ call_in.cfg[2].role = "fullnode"
    /\ Len(ValidatorsOf(call_in.cfg)) = 2
    /\ Len(SeedPeerEntries(call_out.lines)) = 2

\* A line matches the pruning/retention exclusion list.
MatchesExclusion(line) ==
    Has(line, "pruning-period") \/ Has(line, "num-epochs-to-retain")

\* The lines of `lines` that satisfy Keep, in their order.
Kept(lines, Keep(_)) == SelectSeq(lines, Keep)

\* C19 as stated: every template line that matches the exclusion list is
\* dropped, every other line comes out in order, a recognised directive
\* as one line and the rest unchanged.
C19_EveryExcludedLineDropped ==
    call_out.op = "patch_validator_yaml" =>
        LET kept == Kept(call_in.lines, LAMBDA l : ~MatchesExclusion(l))
        IN  /\ Len(call_out.lines) = Len(kept)
            /\ \A i \in 1..Len(kept) :
                  DirectiveOf(kept[i]) = "none" => call_out.lines[i] = kept[i]

\* C19 amended: a recognised directive line is replaced by exactly one line
\* for that directive even when it also matches the exclusion list; a line
\* that is no directive is dropped when it matches the exclusion list and
\* otherwise appears in the output unchanged; the output keeps the order of
\* the template.
C19_LineFilter ==
    call_out.op = "patch_validator_yaml" =>
        LET kept == Kept(call_in.lines,
                         LAMBDA l : DirectiveOf(l) # "none" \/ ~MatchesExclusion(l))
        IN  /\ Len(call_out.lines) = Len(kept)
            /\ \A i \in 1..Len(kept) :
                  IF DirectiveOf(kept[i]) = "none"
                  THEN call_out.lines[i] = kept[i]
                  ELSE /\ ParseLine(call_out.lines[i]).key = DirectiveOf(kept[i])
                       /\ call_out.lines[i][Len(call_out.lines[i])] = Nl
                       /\ \A j \in 1..(Len(call_out.lines[i]) - 1) :
                             call_out.lines[i][j] # Nl

\* C19 witness: a template of an excluded line followed by a line of no
\* interest came out as that second line alone.
C19_Witness ==
    /\ call_out.op = "patch_validator_yaml"
    /\ Len(call_in.lines) = 2
    /\ MatchesExclusion(call_in.lines[1])
    /\ DirectiveOf(call_in.lines[1]) = "none"
    /\ DirectiveOf(call_in.lines[2]) = "none"
    /\ ~MatchesExclusion(call_in.lines[2])
    /\ call_out.lines = <<call_in.lines[2]>>

\* The values a validator config is compiled from, per directive.
CompileInput(key, node) ==
    IF key = "db-path:" THEN <<Tok("/app/db")>>
    ELSE IF key = "genesis-file-location:"
    THEN <<Tok("/custom_config/genesis.blob")>>
    ELSE IF key = "network-address:" THEN <<Tok("/ip4/0.0.0.0/tcp/8080/http")>>
    ELSE IF key = "metrics-address:" THEN <<Tok("0.0.0.0:9184")>>
    ELSE IF key = "listen-address:"
    THEN <<Tok("0.0.0.0:"), Num(node.p2p_port)>>
    ELSE <<Tok("/ip4/")>> \o IpToks(node.ip_addr)
            \o <<Tok("/tcp/"), Num(node.p2p_port)>>

\* The leading whitespace depth of a line.
Depth(line) == ParseLine(line).depth

\* C20: reading a compiled validator config back gives, for every directive
\* line of the template, the storage path, bind address or genesis path the
\* config was compiled from, at the leading whitespace depth of the template
\* line, whatever that depth was.
C20_RoundTrip ==
    call_out.op = "patch_validator_yaml" =>
        LET kept == Kept(call_in.lines,
                         LAMBDA l : DirectiveOf(l) # "none" \/ ~MatchesExclusion(l))
        IN  \A i \in 1..Len(kept) :
               (DirectiveOf(kept[i]) # "none" /\ i <= Len(call_out.lines)) =>
                   LET back == ParseLine(call_out.lines[i])
                   IN  /\ back.key = DirectiveOf(kept[i])
                       /\ back.value = CompileInput(back.key, call_in.node)
                       /\ back.depth = Depth(kept[i])

\* C20 witness: a listen-address line indented by a tab was compiled for the
\* validator at offset 1 and reads back as 0.0.0.0:2011 at depth 1.
C20_Witness ==
    /\ call_out.op = "patch_validator_yaml"
    /\ call_in.node.port_offset = 1
    /\ Len(call_in.lines) = 1
    /\ DirectiveOf(call_in.lines[1]) = "listen-address:"
    /\ Head(call_in.lines[1]) = Tab
    /\ Len(call_out.lines) = 1
    /\ ParseLine(call_out.lines[1]).value = <<Tok("0.0.0.0:"), Num(2011)>>
    /\ ParseLine(call_out.lines[1]).depth = 1

\* ------------------------------------------------------------------- C21
\* A line that binds the JSON-RPC server.
RpcBindDirective(line) == Has(line, "json-rpc-address:")

\* C21: a validator never exposes RPC: the config _patch_validator_yaml
\* compiles for a validator holds no RPC bind directive, whatever the
\* template it is compiled from.
C21_ValidatorConfigHasNoRpcBind ==
    call_out.op = "patch_validator_yaml" =>
        \A i \in 1..Len(call_out.lines) : ~RpcBindDirective(call_out.lines[i])

\* ------------------------------------------------------------------- C22
\* The line of a compiled config that carries key pair k with value v.
KeyPairLine(k, v) == <<Tok(k), Tok(":"), Sp>> \o v

\* C22: the compiled gateway config carries the four key pairs of the
\* gateway's template: for each of the four names a line with the value the
\* template holds for it, or with a blank value when the template has none.
C22_GatewayConfigCarriesKeyPairs ==
    call_out.op = "create_gateway_config" =>
        \A k \in KeyPairNames :
            \E i \in 1..Len(call_out.lines) :
                call_out.lines[i] =
                    KeyPairLine(k, IF k \in DOMAIN call_in.source
                                   THEN <<call_in.source[k][5],
                                          call_in.source[k][6]>>
                                   ELSE <<>>)

\* ------------------------------------------------------------------- C23
\* C23: in every run of start(), every node that was injected and started
\* holds in /custom_config the blob this run's genesis generation wrote:
\* never no blob, never the blob of an earlier process, never another one.
C23_BootedWithThisRunsBlob ==
    \A n \in launched :
        /\ GenesisSucceeded
        /\ starts >= 1
        /\ custom_config[n] = starts

\* A whole network of validators and a gateway was booted, each node with the
\* blob of this run.
C23_Witness ==
    /\ result = "ok"
    /\ FirstFullnode \in launched
    /\ Validators \subseteq launched
    /\ Validators # {}
    /\ genesis_run.tool = "exit_zero"
    /\ \A n \in launched : custom_config[n] = starts

\* ------------------------------------------------------------------- C24
\* C24: client configuration fails whenever the genesis artifact has no
\* funding keystore: with a client container, _configure_client returns and
\* start() reports success only when GENESIS_DIR holds a keystore.
C24_NoKeystoreNoClient ==
    (/\ client_container
     /\ ~stop_log.ran
     /\ pc = "sc_env" \/ result = "ok")
        => work_dir.keystore

\* ------------------------------------------------------------------- C25
\* IotaNetwork keeps no status field for its nodes; the lifecycle status of
\* node n is read off what start() has done to it so far.
NodeStatus(n) ==
    IF error.node = n /\ error.stage \in {"inject", "process_wait", "port_wait"}
    THEN "Failed"
    ELSE IF n \in port_passed THEN "PortConfirmed"
    ELSE IF n \in wait_passed /\ IsValidator(n) THEN "Running"
    ELSE IF n \in launched THEN "ProcessStarted"
    ELSE IF n \in injected THEN "ConfigInjected"
    ELSE "Created"

\* A step of node n failed: its injection raised, or its process was not seen
\* alive by any poll of its process wait, or its port was not seen listening
\* by any poll of its port wait.
StepFailed(n) ==
    \/ error.stage = "inject" /\ error.node = n
    \/ ProcessWaitOver(n) /\ n \notin alive_seen
    \/ PortWaitOver(n) /\ n \notin port_seen

\* The steps of a node are taken in the lifecycle order.
LifecycleInOrder ==
    \A n \in NodeIds :
        /\ n \in launched => n \in injected
        /\ n \in wait_passed => n \in launched
        /\ n \in port_passed => n \in wait_passed /\ IsFullnode(n)

\* C25: during start() each node goes Created, ConfigInjected,
\* ProcessStarted, then PortConfirmed (gateway) or Running; a node whose
\* injection, start or wait step fails is Failed with a cause, and start()
\* then ends in failure.
C25_LifecycleAndFailure ==
    /\ LifecycleInOrder
    /\ \A n \in NodeIds :
          StepFailed(n) =>
              /\ NodeStatus(n) = "Failed"
              /\ result = "failed"

\* ------------------------------------------------------------------- C26
\* The place of a status in the lifecycle order.
StatusRank(status) ==
    CASE status = "created" -> 0
      [] status = "injecting" -> 1
      [] status = "booting" -> 2
      [] status = "running" -> 3
      [] status = "stopped" -> 4
      [] OTHER -> 5

\* C26: over any sequence of set_status calls the status only moves forward
\* through the lifecycle order; the error status is reachable from every
\* status and carries a cause; the status never returns from a later status,
\* or from error, to an earlier one.
C26_StatusOnlyMovesForward ==
    meta_log.calls > 0 =>
        /\ metadata.status = "error" => metadata.error \notin {NoneValue, ""}
        /\ metadata.status # "error" =>
              /\ meta_log.prev_status # "error"
              /\ StatusRank(metadata.status) >= StatusRank(meta_log.prev_status)

\* ------------------------------------------------------------------- C27
\* C27: after any sequence of set_status calls is_ready() is true exactly
\* when the status is "running" and no error is recorded, and a node whose
\* last set_status carried an error is not ready.
C27_ReadyIffRunningWithoutError ==
    /\ meta_log.ready # "unasked" =>
          (meta_log.ready = "yes" <=>
              (metadata.status = "running" /\ metadata.error = NoneValue))
    /\ (meta_log.calls > 0 /\ meta_log.last_error # NoneValue) =>
          /\ ~IsReady(metadata)
          /\ meta_log.ready # "yes"

\* is_ready() answered True after a set_status("running") that followed an
\* error status.
C27_Witness ==
    /\ meta_log.ready = "yes"
    /\ meta_log.calls >= 2
    /\ meta_log.prev_status = "error"

\* ------------------------------------------------------------------- C28
\* C28: a ValidatorNode is constructed only from a config whose role is
\* VALIDATOR and a FullnodeNode only from one whose role is FULLNODE, with
\* ValueError otherwise; and every constructed IotaNodeConfig with a
\* node_type has the role of that type's family.
C28_RoleMatchesClassAndType ==
    call_out.op = "make_node" /\ call_out.config.raised = "none" =>
        LET c == call_out.config.cfg[1]
        IN  /\ call_out.node \in {"ValidatorNode", "FullnodeNode", "ValueError"}
            /\ call_out.node = "ValidatorNode" <=>
                  (call_in.class = "ValidatorNode" /\ c.role = EnumOf("validator"))
            /\ call_out.node = "FullnodeNode" <=>
                  (call_in.class = "FullnodeNode" /\ c.role = EnumOf("fullnode"))
            /\ c.role.kind = "enum" /\ c.role.v \in NodeRoleValues
            /\ c.node_type.kind # "none" =>
                  /\ c.node_type.v \in ValidatorTypes => c.role.v = "validator"
                  /\ c.node_type.v \in FullnodeTypes => c.role.v = "fullnode"

\* A ValidatorNode built from a config that was given the role "fullnode" and
\* the type consensus_validator.
C28_Witness ==
    /\ call_out.op = "make_node"
    /\ call_out.node = "ValidatorNode"
    /\ call_in.args.role = StrOf("fullnode")
    /\ call_in.args.node_type = EnumOf("consensus_validator")

\* ------------------------------------------------------------------- C29
\* The fields to_dict writes are the same in both configs.
SameConfig(c, d) ==
    /\ c.name = d.name
    /\ c.ip = d.ip
    /\ c.role = d.role
    /\ c.node_type = d.node_type
    /\ c.port_offset = d.port_offset
    /\ c.image = d.image
    /\ c.p2p_port = d.p2p_port
    /\ c.rpc_port = d.rpc_port
    /\ c.metrics_port = d.metrics_port

\* C29: for every valid IotaNodeConfig c, from_dict(c.to_dict()) succeeds and
\* has the same name, ip, role, node_type, port_offset, image and the same
\* three ports as c.
C29_DictRoundTrip ==
    call_out.op = "round_trip" /\ call_out.config.raised = "none" =>
        /\ call_out.back.raised = "none"
        /\ SameConfig(call_out.config.cfg[1], call_out.back.cfg[1])

\* ------------------------------------------------------------------- C30
\* An attempt that failed and may be retried: a non-zero exit or a timeout.
CopyFailed(outcome) == outcome \in {"rc1", "timeout"}

\* C30: docker_copy with retries = n runs docker cp at most n times; it stops
\* at the first attempt that succeeds and returns True; once the n-th attempt
\* has failed it returns False, with no attempt after it.
C30_BoundedRetries ==
    call_out.op = "docker_copy" =>
        LET n == call_in.retries
            k == call_out.attempts
            o == call_in.outcomes
        IN  /\ k \in 0..n
            /\ call_out.ret <=> (k >= 1 /\ o[k] = "rc0")
            /\ \A i \in 1..(k - 1) : CopyFailed(o[i])
            /\ (call_in.src_exists /\ \A i \in 1..n : CopyFailed(o[i])) =>
                  (~call_out.ret /\ k = n)
            /\ \A i \in 1..n :
                  (/\ call_in.src_exists
                   /\ o[i] = "rc0"
                   /\ \A j \in 1..(i - 1) : CopyFailed(o[j])) =>
                      (call_out.ret /\ k = i)

\* Two failed attempts, a non-zero exit and a timeout, then the third and
\* last one succeeds.
C30_Witness ==
    /\ call_out.op = "docker_copy"
    /\ call_in.retries = 3
    /\ call_in.outcomes[1] = "rc1"
    /\ call_in.outcomes[2] = "timeout"
    /\ call_out.ret
    /\ call_out.attempts = 3

\* ------------------------------------------------------------------- C31
\* C31: _call returns the result only for a response with no error member;
\* a response with an error member raises IotaRpcError with its code and
\* message; a timeout raises IotaTimeoutError and any other transport
\* failure IotaConnectionError; no other exception leaves the call.
C31_OnlyClientErrorsEscape ==
    call_out.op = "rpc_call" =>
        LET x == call_in.x
            r == call_out.r
            answered == x.post = "response" /\ x.status = "ok"
                            /\ x.json = "parsed"
        IN  /\ r.raised \in {"none", "IotaRpcError", "IotaTimeoutError",
                              "IotaConnectionError"}
            /\ r.raised = "none" =>
                  answered /\ x.body.kind = "object" /\ x.body.error = "absent"
            /\ (answered /\ x.body.kind = "object" /\ x.body.error # "absent")
                  => r.raised = "IotaRpcError"
            /\ x.post = "Timeout" => r.raised = "IotaTimeoutError"
            /\ (~answered /\ x.post # "Timeout")
                  => r.raised = "IotaConnectionError"

\* ------------------------------------------------------------------- C32
\* C32: transfer_iota with lists of equal length adds a split of the gas
\* coin into the amounts and a transfer of each split to its recipient, so
\* that every recipient is in the command build_cli_command() returns; with
\* lists of different length it raises ValueError and leaves the commands
\* of the builder as they were.
C32_TransferReachesRecipients ==
    call_out.op = "transfer_iota" =>
        IF Len(call_in.recipients) # Len(call_in.amounts)
        THEN /\ call_out.raised = "ValueError"
             /\ call_out.commands = call_in.commands
        ELSE /\ call_out.raised = "none"
             /\ \E i \in 1..Len(call_out.commands) :
                    /\ i > Len(call_in.commands)
                    /\ call_out.commands[i].type = "split_coin"
                    /\ call_out.commands[i].amounts = call_in.amounts
             /\ \A k \in 1..Len(call_in.recipients) :
                    /\ \E i \in 1..Len(call_out.commands) :
                          /\ i > Len(call_in.commands)
                          /\ call_out.commands[i].type = "transfer_object"
                          /\ call_out.commands[i].recipient =
                                call_in.recipients[k]
                    /\ Has(call_out.built.cli, call_in.recipients[k])

\* ------------------------------------------------------------------- C33
\* The sleeps of `secs` seconds that followed the boot of node n.
SleepsOf(secs, n) ==
    {k \in 1..Len(sleeps) : sleeps[k] = Slept(secs, n)}

C34_EveryBootedNodeHasConfigDir ==
    (pc = "inject" /\ bi \in 1..Len(BootOrder)) =>
        CurrentNode \in work_dir.prepared

\* ------------------------------------------------------------------- C35
\* C35: when _prepare_configs compiles the configurations, no two validators
\* are compiled from the same template file, and the gateway is compiled
\* from no template a validator was compiled from.
C35_TemplatesNotShared ==
    (call_out.op = "prepare_templates" /\ call_out.templates.raised = "none") =>
        LET t == call_out.templates
        IN /\ \A i, j \in 1..Len(t.validators) :
                 i # j => t.validators[i] # t.validators[j]
           /\ \A i \in 1..Len(t.validators) : t.gateway # t.validators[i]

\* ------------------------------------------------------------------- C36
\* C36: while an IotaNetwork object counts on the work directory it made
\* (from its _cleanup until its own stop), no start(), stop(), signal
\* handler or exit cleanup of another object deletes the directory or
\* overwrites what it holds: it still exists, was made by this object, and
\* genesis files and node configurations in it are this object's.
C36_WorkDirIsPrivate ==
    \A i \in PeerIds :
        peers.inst[i].uses =>
            /\ peers.work_dir.exists
            /\ peers.work_dir.made_by = i
            /\ peers.work_dir.genesis_by \in {0, i}
            /\ peers.work_dir.configs_by \in {0, i}

\* ------------------------------------------------------------------- C37
\* C37: over any sequence of start() and stop() on one IotaNetwork, an
\* iota-node process is added to a container only when no earlier one runs
\* in it, so that a container never holds more than one.
C37_OneProcessPerContainer ==
    [][\A n \in NodeIds : procs'[n] > procs[n] => procs[n] = 0]_vars

\* ------------------------------------------------------------------- C38
\* C38: transfer_object, pay_iota, publish_package and call_function called
\* with a sender leave the wallet's active address as it was before the
\* call, whether they return or raise, whatever the read of the active
\* address and the switches inside give.
C38_ActiveAddressRestored ==
    (call_out.op = "call_with_sender" /\ call_in.sender # NoneValue) =>
        call_out.active = call_in.active

\* ------------------------------------------------------------------- C39
\* C39: publish_package changes deployed_packages only when the publish
\* command was sent, its output reported success with a published package
\* id, and nothing was raised; the change is the entry of that package.
\* When the coins of the sender add up to less than the gas budget, no
\* publish command is sent, RuntimeError is raised and deployed_packages
\* is what it was.
C39_PublishOnlyWhenFundedAndPublished ==
    call_out.op = "publish_package" =>
        /\ call_out.deployed # call_in.deployed =>
              /\ call_out.raised = "none"
              /\ call_in.publish_output = "published"
              /\ call_out.sent = <<"gas", "publish">>
              /\ \A d \in call_out.deployed \ call_in.deployed :
                    d.name = call_in.name
        /\ call_out.raised # "none" => call_out.deployed = call_in.deployed
        /\ (call_in.account /\ SumSeq(call_in.coins) < call_in.gas_budget) =>
              /\ call_out.raised = "RuntimeError"
              /\ \A k \in 1..Len(call_out.sent) : call_out.sent[k] # "publish"
              /\ call_out.deployed = call_in.deployed

\* A sender with one coin worth less than the budget, listed by the gas
\* query, and a publish command that would have succeeded.
C39_Witness ==
    /\ call_out.op = "publish_package"
    /\ call_in.account
    /\ call_in.gas_output = "listing"
    /\ call_in.coins = <<1>>
    /\ call_in.gas_budget = 2
    /\ call_in.publish_output = "published"
    /\ call_in.deployed # {}
    /\ call_out.raised = "RuntimeError"
    /\ call_out.sent = <<"gas">>

====
